---------------------------- MODULE Spec2Model ----------------------------
(***************************************************************************)
(* A model of ra-dns-check.py (RIPE Atlas DNS measurement comparison).     *)
(*                                                                         *)
(* The script is a single sequential run.  Its module-level code is cut    *)
(* into five steps, each one action: the date-time validation, the data    *)
(* source count check, the data loading loop (one iteration per result     *)
(* set, calling process_request), the reconciliation of the two sets and   *)
(* the report (load_probe_properties, header, one row per probe).          *)
(*                                                                         *)
(* Everything the run reads from outside (command line, files, the RIPE    *)
(* Atlas API) is fixed by the initial state, so that every action is a     *)
(* deterministic function of the state, as the code is.                    *)
(*                                                                         *)
(* Representation:                                                         *)
(*  - a Python str is a sequence of one-character strings, except the DNS  *)
(*    answer text, which is a sequence of tokens (see "DNS answer text");  *)
(*  - None is NoneStr where a str is expected, "None" where a probe        *)
(*    property is expected, and a record field (present, bound, ...) tells *)
(*    whether an object is there otherwise;                                *)
(*  - a Python dict is a function whose DOMAIN is the set of its keys;     *)
(*  - response times (float milliseconds) and timestamps are integers;     *)
(*  - time.mktime is taken in UTC.                                         *)
(***************************************************************************)
EXTENDS Integers, Sequences, FiniteSets, TLC

VARIABLES
    \* position of the run in the module-level code, and how it ended
    pc, exit_code,
    \* the outside world (fixed by Init, except data_sources and ppcf)
    args, data_sources, api, exclusion_file, ppcf, ripe_probes,
    \* module-level state of the script
    unixtimes, results_set_id, last_results_set_id, measurement_ids,
    m_ip_version, m_total_responses, m_total_malformeds,
    m_total_abuf_malformeds, m_total_errors, m_total_slow,
    m_response_times, m_timestamps, m_seen_probe_ids, m_seen_probe_ids_set,
    pm_response_time, pm_dns_server_substring,
    common_probe_ids, uniq_seen_probe_ids, report_ip_version,
    p_probe_properties,
    \* the requests made to the RIPE Atlas results API, in order
    api_requests,
    \* what the run has written: summary blocks, header lines, probe rows
    summary_out, header_out, rows_out

world_vars == <<args, data_sources, api, exclusion_file, ppcf, ripe_probes>>

m_vars == <<m_ip_version, m_total_responses, m_total_malformeds,
            m_total_abuf_malformeds, m_total_errors, m_total_slow,
            m_response_times, m_timestamps, m_seen_probe_ids,
            m_seen_probe_ids_set, pm_response_time, pm_dns_server_substring,
            measurement_ids>>

reconcile_vars == <<common_probe_ids, uniq_seen_probe_ids, report_ip_version>>

out_vars == <<summary_out, header_out, rows_out>>

vars == <<pc, exit_code, world_vars, unixtimes, results_set_id,
          last_results_set_id, m_vars, api_requests, reconcile_vars,
          p_probe_properties, out_vars>>

\* None where a str (a sequence of characters) is expected, and where a probe
\* property (a string of the model) is expected
NoneStr == <<"None">>
None == "None"

-----------------------------------------------------------------------------
(* Strings and integers *)

DigitChars == <<"0", "1", "2", "3", "4", "5", "6", "7", "8", "9">>

IsDigit(c) == \E i \in 1..10 : DigitChars[i] = c

DigitVal(c) == (CHOOSE i \in 1..10 : DigitChars[i] = c) - 1

RECURSIVE StrNat(_)
StrNat(n) == IF n < 10 THEN <<DigitChars[n + 1]>>
             ELSE StrNat(n \div 10) \o <<DigitChars[(n % 10) + 1]>>

\* str(n) of a Python int
Str(n) == IF n < 0 THEN <<"-">> \o StrNat(0 - n) ELSE StrNat(n)

RECURSIVE IntOfDigits(_, _)
IntOfDigits(s, acc) ==
    IF s = <<>> THEN acc ELSE IntOfDigits(Tail(s), 10 * acc + DigitVal(Head(s)))

\* int(s) of a Python str of decimal digits
IntOf(s) == IntOfDigits(s, 0)

\* s < t for two Python strs (lexicographic, by code point); the only
\* characters compared are digits
RECURSIVE StrLess(_, _)
StrLess(s, t) ==
    IF t = <<>> THEN FALSE
    ELSE IF s = <<>> THEN TRUE
    ELSE IF Head(s) = Head(t) THEN StrLess(Tail(s), Tail(t))
    ELSE DigitVal(Head(s)) < DigitVal(Head(t))

\* list.sort() of a list of integers (insertion into a sorted list)
RECURSIVE InsertInt(_, _)
InsertInt(x, s) ==
    IF s = <<>> THEN <<x>>
    ELSE IF x <= Head(s) THEN <<x>> \o s
    ELSE <<Head(s)>> \o InsertInt(x, Tail(s))

RECURSIVE SortInts(_)
SortInts(s) == IF s = <<>> THEN <<>> ELSE InsertInt(Head(s), SortInts(Tail(s)))

\* list.sort() of a list of strs
RECURSIVE InsertStr(_, _)
InsertStr(x, s) ==
    IF s = <<>> THEN <<x>>
    ELSE IF ~StrLess(Head(s), x) THEN <<x>> \o s
    ELSE <<Head(s)>> \o InsertStr(x, Tail(s))

RECURSIVE SortStrs(_)
SortStrs(s) == IF s = <<>> THEN <<>> ELSE InsertStr(Head(s), SortStrs(Tail(s)))

Range(s) == {s[i] : i \in 1..Len(s)}

\* list(a_set): some order of the elements; the code sorts before it relies
\* on the order, so the sorted order is taken
RECURSIVE ListOfSet(_)
ListOfSet(S) ==
    IF S = {} THEN <<>>
    ELSE LET x == CHOOSE y \in S : \A z \in S : z = y \/ StrLess(y, z)
         IN  <<x>> \o ListOfSet(S \ {x})

-----------------------------------------------------------------------------
(* Time normalizer: is_valid_unixtime, user_datetime_to_valid_unixtime *)

\* int(time.time()) when the run starts: 2023-11-14 22:13:00 UTC, the start
\* of a minute, so that a date-time of the command line can be equal to it
current_unixtime == 1699999980

IsLeap(y) == (y % 4 = 0 /\ y % 100 # 0) \/ y % 400 = 0

DaysInMonth(y, m) ==
    IF m = 2 THEN (IF IsLeap(y) THEN 29 ELSE 28)
    ELSE IF m \in {4, 6, 9, 11} THEN 30 ELSE 31

RECURSIVE DaysBeforeMonth(_, _)
DaysBeforeMonth(y, m) ==
    IF m = 1 THEN 0 ELSE DaysBeforeMonth(y, m - 1) + DaysInMonth(y, m - 1)

\* days from 1970-01-01 to the first day of year y, for y >= 1970
LeapsBefore(y) == ((y - 1) \div 4) - ((y - 1) \div 100) + ((y - 1) \div 400)

DaysBeforeYear(y) == (y - 1970) * 365 + (LeapsBefore(y) - LeapsBefore(1970))

\* int(time.mktime(t)) of a broken-down time.  The model's integers are 32
\* bits wide: a year before 1970 gives -1 and a year after 2037 the largest
\* integer, which is_valid_unixtime rejects as it rejects the exact values.
mktime(t) ==
    IF t.Y < 1970 THEN -1
    ELSE IF t.Y > 2037 THEN 2147483647
    ELSE ((DaysBeforeYear(t.Y) + DaysBeforeMonth(t.Y, t.m) + (t.d - 1)) * 24
          + t.H) * 3600 + t.M * 60 + t.S

\* config['oldest_atlas_result_datetime'], default '2010 01 01 00:00:00'
oldest_result_unixtime ==
    mktime([Y |-> 2010, m |-> 1, d |-> 1, H |-> 0, M |-> 0, S |-> 0])

\* A value handed to is_valid_unixtime is a str or an int
PyStr(s) == [type |-> "str", v |-> s]
PyInt(n) == [type |-> "int", v |-> n]

\* is_valid_unixtime, were the current time a valid one
is_valid_unixtimeUpToNow(_possible_unixtime) ==
    /\ _possible_unixtime.type = "int"
    /\ _possible_unixtime.v <= current_unixtime
    /\ _possible_unixtime.v >= oldest_result_unixtime

is_valid_unixtime(_possible_unixtime) ==
    /\ _possible_unixtime.type = "int"
    /\ _possible_unixtime.v < current_unixtime
    /\ _possible_unixtime.v >= oldest_result_unixtime

\* The formats of accepted_datetime_formats, each a list of directives and
\* literal characters
accepted_datetime_formats ==
    << <<"%Y", "%m", "%d">>,
       <<"%Y", "%m", "%d", "%H", "%M">>,
       <<"%Y", "%m", "%d", "_", "%H", "%M">>,
       <<"%Y", "%m", "%d", "_", "%H", ":", "%M">>,
       <<"%Y", "%m", "%d", ".", "%H", "%M">>,
       <<"%Y", "%m", "%d", ".", "%H", ":", "%M">>,
       <<"%Y", "%m", "%d", " ", "%H", "%M">>,
       <<"%Y", "%m", "%d", " ", "%H", ":", "%M">>,
       <<"%Y", "-", "%m", "-", "%d", "_", "%H", "%M">>,
       <<"%Y", "-", "%m", "-", "%d", "_", "%H", ":", "%M">>,
       <<"%Y", "-", "%m", "-", "%d", "-", "%H", "%M">>,
       <<"%Y", "-", "%m", "-", "%d", "-", "%H", ":", "%M">> >>

Directives == {"%Y", "%m", "%d", "%H", "%M"}

\* The field of the broken-down time a directive sets
DirectiveField(dir) ==
    CASE dir = "%Y" -> "Y" [] dir = "%m" -> "m" [] dir = "%d" -> "d"
      [] dir = "%H" -> "H" [] dir = "%M" -> "M"

DigitsAt(s, pos, n) ==
    pos + n - 1 <= Len(s) /\ \A i \in pos..(pos + n - 1) : IsDigit(s[i])

NumAt(s, pos, n) == IntOf(SubSeq(s, pos, pos + n - 1))

\* The alternatives of a directive's regular expression that match s at pos,
\* in the order the regular expression tries them (time.strptime's patterns:
\* %Y \d\d\d\d; %m 1[0-2]|0[1-9]|[1-9]; %d 3[0-1]|[1-2]\d|0[1-9]|[1-9]| [1-9];
\* %H 2[0-3]|[0-1]\d|\d; %M [0-5]\d|\d).
DirectiveAlternatives(dir, s, pos) ==
    LET two == IF DigitsAt(s, pos, 2)
               THEN <<[len |-> 2, val |-> NumAt(s, pos, 2)]>> ELSE <<>>
        one == IF DigitsAt(s, pos, 1)
               THEN <<[len |-> 1, val |-> NumAt(s, pos, 1)]>> ELSE <<>>
        sp  == IF pos + 1 <= Len(s) /\ s[pos] = " " /\ IsDigit(s[pos + 1])
               THEN <<[len |-> 2, val |-> NumAt(s, pos + 1, 1)]>> ELSE <<>>
    IN  CASE dir = "%Y" ->
               IF DigitsAt(s, pos, 4)
               THEN <<[len |-> 4, val |-> NumAt(s, pos, 4)]>> ELSE <<>>
          [] dir = "%m" ->
               SelectSeq(two, LAMBDA a : a.val >= 1 /\ a.val <= 12)
               \o SelectSeq(one, LAMBDA a : a.val >= 1)
          [] dir = "%d" ->
               SelectSeq(two, LAMBDA a : a.val >= 1 /\ a.val <= 31)
               \o SelectSeq(one, LAMBDA a : a.val >= 1)
               \o SelectSeq(sp, LAMBDA a : a.val >= 1)
          [] dir = "%H" ->
               SelectSeq(two, LAMBDA a : a.val <= 23) \o one
          [] dir = "%M" ->
               SelectSeq(two, LAMBDA a : a.val <= 59) \o one

\* The number of spaces of s from pos on
RECURSIVE SpacesAt(_, _)
SpacesAt(s, pos) ==
    IF pos <= Len(s) /\ s[pos] = " " THEN 1 + SpacesAt(s, pos + 1) ELSE 0

\* re.match of the format's regular expression on s from item i and position
\* pos: the first match in the expression's order of preference, with
\* backtracking; a space of the format is \s+
RECURSIVE StrptimeMatch(_, _, _, _, _)
RECURSIVE StrptimeTry(_, _, _, _, _, _, _)
StrptimeMatch(fmt, i, s, pos, acc) ==
    IF i > Len(fmt) THEN [ok |-> TRUE, end |-> pos, t |-> acc]
    ELSE IF fmt[i] \in Directives
    THEN StrptimeTry(fmt, i, s, pos, acc,
                     DirectiveAlternatives(fmt[i], s, pos), 1)
    ELSE IF fmt[i] = " "
    THEN StrptimeTry(fmt, i, s, pos, acc,
                     [k \in 1..SpacesAt(s, pos) |->
                         [len |-> SpacesAt(s, pos) + 1 - k, val |-> 0]], 1)
    ELSE IF pos <= Len(s) /\ s[pos] = fmt[i]
    THEN StrptimeMatch(fmt, i + 1, s, pos + 1, acc)
    ELSE [ok |-> FALSE]

StrptimeTry(fmt, i, s, pos, acc, alts, k) ==
    IF k > Len(alts) THEN [ok |-> FALSE]
    ELSE LET acc2 == IF fmt[i] \in Directives
                     THEN [acc EXCEPT ![DirectiveField(fmt[i])] = alts[k].val]
                     ELSE acc
             r == StrptimeMatch(fmt, i + 1, s, pos + alts[k].len, acc2)
         IN  IF r.ok THEN r ELSE StrptimeTry(fmt, i, s, pos, acc, alts, k + 1)

\* time.strptime(s, fmt): the broken-down time, or a ValueError when the
\* format does not match, when unconverted data remains or when the day is
\* not a day of the month
strptime(s, fmt) ==
    LET r == StrptimeMatch(fmt, 1, s, 1,
                 [Y |-> 1900, m |-> 1, d |-> 1, H |-> 0, M |-> 0, S |-> 0])
    IN  IF ~r.ok THEN [ok |-> FALSE]
        ELSE IF r.end # Len(s) + 1 THEN [ok |-> FALSE]
        ELSE IF r.t.Y < 1 \/ r.t.d > DaysInMonth(r.t.Y, r.t.m)
        THEN [ok |-> FALSE]
        ELSE [ok |-> TRUE, t |-> r.t]

\* The for loop of user_datetime_to_valid_unixtime from format k on
RECURSIVE TryFormats(_, _)
TryFormats(user_dt_string, k) ==
    IF k > Len(accepted_datetime_formats) THEN [exit |-> 2]
    ELSE LET p == strptime(user_dt_string, accepted_datetime_formats[k])
         IN  IF p.ok /\ is_valid_unixtime(PyInt(mktime(p.t)))
             THEN [exit |-> 0, value |-> mktime(p.t)]
             ELSE TryFormats(user_dt_string, k + 1)

\* user_datetime_to_valid_unixtime: the value returned, or exit(2).  The
\* argument is the str argparse hands over (type=str).
user_datetime_to_valid_unixtime(user_dt_string) ==
    IF is_valid_unixtime(PyStr(user_dt_string))
    THEN [exit |-> 0, value |-> IntOf(user_dt_string)]
    ELSE TryFormats(user_dt_string, 1)

-----------------------------------------------------------------------------
(* DNS answer text *)

\* The text of a DNS answer (dns_result.responses[0].abuf.answers[0].data[0])
\* and the strings derived from it are sequences of tokens: a token is a run
\* of characters that no operation of the script cuts (a label such as "ams",
\* the delimiter ".", the ":" the report joins two answers with, and the
\* words the report recognises).
unknown  == <<"unknown">>
no_reply == <<"no_reply">>
no_data  == <<"no_data">>

\* str.split(sep) for a one-token separator: the list of the pieces
RECURSIVE SplitFrom(_, _, _)
SplitFrom(s, sep, piece) ==
    IF s = <<>> THEN <<piece>>
    ELSE IF Head(s) = sep THEN <<piece>> \o SplitFrom(Tail(s), sep, <<>>)
    ELSE SplitFrom(Tail(s), sep, Append(piece, Head(s)))

Split(s, sep) == SplitFrom(s, sep, <<>>)

-----------------------------------------------------------------------------
(* Result Ingestor: process_request *)

\* re.match(r'^[0-9]{8}$', _data_source); $ also matches before a final
\* newline
LooksLikeMeasurementId(name) ==
    /\ Len(name) \in {8, 9}
    /\ \A i \in 1..8 : IsDigit(name[i])
    /\ Len(name) = 9 => name[9] = "\n"

\* ResultsAndProbesId, were the key that of the probe alone
ResultsAndProbesIdOfProbe(_results_set_id, probe_id) ==
    Str(0) \o <<"-">> \o probe_id

\* results_and_probes_id = str(_results_set_id) + '-' + str(probe_id)
ResultsAndProbesId(_results_set_id, probe_id) ==
    Str(_results_set_id) \o <<"-">> \o probe_id

\* The state process_request builds for one result set, as the loop over the
\* results sees it: the m_ entries of the set, the two pm_ dictionaries
\* (shared by the sets) and the local measurement_id (unbound, or bound to
\* a value)
LoopStart(measurement_id) ==
    [ total_responses       |-> 0,
      total_malformeds      |-> 0,
      total_abuf_malformeds |-> 0,
      total_errors          |-> 0,
      total_slow            |-> 0,
      response_times        |-> <<>>,
      timestamps            |-> <<>>,
      seen_probe_ids        |-> <<>>,
      pm_rt                 |-> pm_response_time,
      pm_dns                |-> pm_dns_server_substring,
      measurement_id        |-> measurement_id ]

\* Lines 691-699: the malformed answer buffers of the first two responses
AbufMalformeds(r) ==
    (IF r.responses[1].abuf.present /\ r.responses[1].abuf.is_malformed
     THEN 1 ELSE 0)
    + (IF Len(r.responses) > 1 /\ r.responses[2].abuf.present
          /\ r.responses[2].abuf.is_malformed
       THEN 1 ELSE 0)

\* Lines 711-727: the DNS answer substring of a result.  [set |-> FALSE] when
\* nothing is stored (split_char '!' assigns split_result only).
DnsServerSubstring(r) ==
    LET abuf == r.responses[1].abuf IN
    IF ~abuf.present THEN [set |-> TRUE, v |-> no_data]      \* AttributeError
    ELSE IF abuf.answers = <<>> THEN [set |-> TRUE, v |-> no_reply]
    ELSE IF ~abuf.answers[1].has_data
    THEN [set |-> TRUE, v |-> no_data]                       \* AttributeError
    ELSE IF abuf.answers[1].data = <<>> THEN [set |-> TRUE, v |-> no_reply]
    ELSE LET dns_server_fqdn == abuf.answers[1].data[1]
             split_result    == Split(dns_server_fqdn, args.split_char)
             item == args.dns_response_item_occurence_to_return
         IN  IF args.split_char = "!" THEN [set |-> FALSE]
             ELSE IF Len(split_result) > item
             THEN [set |-> TRUE, v |-> split_result[item + 1]]
             ELSE [set |-> TRUE, v |-> dns_server_fqdn]

\* CountResult with total-responses counted for well-formed results only
CountResultWellFormedOnly(st, r) ==
    LET st1 == [st EXCEPT !.seen_probe_ids = Append(@, Str(r.probe_id))]
    IN  IF r.is_malformed THEN [st1 EXCEPT !.total_malformeds = @ + 1]
        ELSE IF r.is_error THEN [st1 EXCEPT !.total_errors = @ + 1]
        ELSE [st1 EXCEPT !.total_responses = @ + 1]

\* CountResult, were the probe seen only by a result that is neither
\* malformed nor an error
CountResultSeenIfWellFormed(st, r) ==
    LET st1 == [st EXCEPT !.total_responses = @ + 1]
    IN  IF r.is_malformed THEN [st1 EXCEPT !.total_malformeds = @ + 1]
        ELSE IF r.is_error THEN [st1 EXCEPT !.total_errors = @ + 1]
        ELSE [st1 EXCEPT !.seen_probe_ids = Append(@, Str(r.probe_id))]

\* Lines 675-682: the counters of a result that is not excluded
CountResult(st, r) ==
    LET st1 == [st EXCEPT !.seen_probe_ids = Append(@, Str(r.probe_id)),
                          !.total_responses = @ + 1]
    IN  IF r.is_malformed THEN [st1 EXCEPT !.total_malformeds = @ + 1]
        ELSE IF r.is_error THEN [st1 EXCEPT !.total_errors = @ + 1]
        ELSE st1

\* RecordResponse, were the metric of a (set, probe) key kept once recorded
RecordResponseKeepFirst(st, r, _results_set_id) ==
    LET key == ResultsAndProbesId(_results_set_id, Str(r.probe_id))
        rt  == r.responses[1].response_time
        sub == DnsServerSubstring(r)
    IN  [st EXCEPT
           !.total_abuf_malformeds = @ + AbufMalformeds(r),
           !.response_times = Append(@, rt),
           !.total_slow = IF rt > args.slow_threshold THEN @ + 1 ELSE @,
           !.timestamps = Append(@, r.created_timestamp),
           !.pm_rt = @ @@ (key :> rt),
           !.pm_dns = IF sub.set THEN @ @@ (key :> sub.v) ELSE @]

\* RecordResponse, were the slow counter compared with no threshold
RecordResponseAlwaysSlow(st, r, _results_set_id) ==
    LET key == ResultsAndProbesId(_results_set_id, Str(r.probe_id))
        rt  == r.responses[1].response_time
        sub == DnsServerSubstring(r)
    IN  [st EXCEPT
           !.total_abuf_malformeds = @ + AbufMalformeds(r),
           !.response_times = Append(@, rt),
           !.total_slow = @ + 1,
           !.timestamps = Append(@, r.created_timestamp),
           !.pm_rt = (key :> rt) @@ @,
           !.pm_dns = IF sub.set THEN (key :> sub.v) @@ @ ELSE @]

\* Lines 683-727: what a result that is neither malformed nor an error adds
RecordResponse(st, r, _results_set_id) ==
    LET key == ResultsAndProbesId(_results_set_id, Str(r.probe_id))
        rt  == r.responses[1].response_time
        sub == DnsServerSubstring(r)
    IN  [st EXCEPT
           !.total_abuf_malformeds = @ + AbufMalformeds(r),
           !.response_times = Append(@, rt),
           !.total_slow = IF rt > args.slow_threshold THEN @ + 1 ELSE @,
           !.timestamps = Append(@, r.created_timestamp),
           !.pm_rt = (key :> rt) @@ @,
           !.pm_dns = IF sub.set THEN (key :> sub.v) @@ @ ELSE @]

\* IngestResult with the exclusion applied after the counters
IngestResultExcludeLate(st, r, _results_set_id, m_probe_ids_to_exclude) ==
    LET st1 == CountResult([st EXCEPT !.measurement_id =
                               [bound |-> TRUE, v |-> r.measurement_id]], r)
    IN  IF Str(r.probe_id) \in Range(m_probe_ids_to_exclude) THEN st1
        ELSE IF r.is_malformed \/ r.is_error THEN st1
        ELSE RecordResponse(st1, r, _results_set_id)

\* Lines 646-727: one iteration of the loop over the results
IngestResult(st, r, _results_set_id, m_probe_ids_to_exclude) ==
    IF Str(r.probe_id) \in Range(m_probe_ids_to_exclude) THEN st
    ELSE LET st1 == CountResult([st EXCEPT !.measurement_id =
                                   [bound |-> TRUE, v |-> r.measurement_id]], r)
         IN  IF r.is_malformed \/ r.is_error THEN st1
             ELSE RecordResponse(st1, r, _results_set_id)

RECURSIVE IngestResults(_, _, _, _)
IngestResults(st, results, _results_set_id, m_probe_ids_to_exclude) ==
    IF results = <<>> THEN st
    ELSE IngestResults(
             IngestResult(st, Head(results), _results_set_id,
                          m_probe_ids_to_exclude),
             Tail(results), _results_set_id, m_probe_ids_to_exclude)

\* SortResults without the sort of the timestamps
SortResultsTimesOnly(st) ==
    [st EXCEPT !.response_times = SortInts(@),
               !.seen_probe_ids = SortStrs(@)]

\* Lines 734-737: the sorts that end process_request
SortResults(st) ==
    [st EXCEPT !.response_times = SortInts(@),
               !.timestamps = SortInts(@),
               !.seen_probe_ids = SortStrs(@)]

\* FetchResults, were the window a whole interval
FetchResultsWholeInterval(_data_source, _results_set_id, _unixtime) ==
    IF _data_source.readable
    THEN [exit |-> 0, results |-> _data_source.content,
          measurement_id |-> [bound |-> FALSE], request |-> <<>>]
    ELSE IF LooksLikeMeasurementId(_data_source.name)
    THEN LET measurement_id == IntOf(SubSeq(_data_source.name, 1, 8))
             request ==
               IF _unixtime = 0
               THEN [kind |-> "latest", msm_id |-> measurement_id]
               ELSE [kind |-> "results", msm_id |-> measurement_id,
                     start |-> _unixtime,
                     stop |-> _unixtime + api.interval]
             reply == api.replies[_results_set_id]
         IN  IF ~reply.is_success
             THEN [exit |-> 11, request |-> <<request>>]
             ELSE [exit |-> 0, results |-> reply.results,
                   measurement_id |-> [bound |-> TRUE, v |-> measurement_id],
                   request |-> <<request>>]
    ELSE [exit |-> 12, request |-> <<>>]

\* Lines 570-615: where the results come from.  A readable local file wins;
\* else an 8-digit source is asked from the API (latest results, or the
\* window from _unixtime on); else exit(12).  A failed request is exit(11).
FetchResults(_data_source, _results_set_id, _unixtime) ==
    IF _data_source.readable
    THEN [exit |-> 0, results |-> _data_source.content,
          measurement_id |-> [bound |-> FALSE], request |-> <<>>]
    ELSE IF LooksLikeMeasurementId(_data_source.name)
    THEN LET measurement_id == IntOf(SubSeq(_data_source.name, 1, 8))
             request ==
               IF _unixtime = 0
               THEN [kind |-> "latest", msm_id |-> measurement_id]
               ELSE [kind |-> "results", msm_id |-> measurement_id,
                     start |-> _unixtime,
                     stop |-> _unixtime + api.interval - 300]
             reply == api.replies[_results_set_id]
         IN  IF ~reply.is_success
             THEN [exit |-> 11, request |-> <<request>>]
             ELSE [exit |-> 0, results |-> reply.results,
                   measurement_id |-> [bound |-> TRUE, v |-> measurement_id],
                   request |-> <<request>>]
    ELSE [exit |-> 12, request |-> <<>>]

\* ReadExclusionList, were an unreadable list the failure of exit code 12
ReadExclusionListExit12 ==
    IF args.exclusion_list_file = NoneStr THEN [exit |-> 0, ids |-> <<>>]
    ELSE IF ~exclusion_file.readable THEN [exit |-> 12]
    ELSE [exit |-> 0, ids |-> exclusion_file.lines]

\* Lines 637-643: the exclusion list
ReadExclusionList ==
    IF args.exclusion_list_file = NoneStr THEN [exit |-> 0, ids |-> <<>>]
    ELSE IF ~exclusion_file.readable THEN [exit |-> 13]
    ELSE [exit |-> 0, ids |-> exclusion_file.lines]

\* process_request: [exit |-> code] when the run ends in it (1: an exception
\* nothing catches, here measurement_id read at line 729 while unbound), else
\* the state of the result set and the measurement id returned
process_request(_data_source, _results_set_id, _unixtime) ==
    LET fetched == FetchResults(_data_source, _results_set_id, _unixtime) IN
    IF fetched.exit # 0 THEN [exit |-> fetched.exit, request |-> fetched.request]
    ELSE LET excl == ReadExclusionList IN
    IF excl.exit # 0 THEN [exit |-> excl.exit, request |-> fetched.request]
    ELSE LET st == IngestResults(LoopStart(fetched.measurement_id),
                                 fetched.results, _results_set_id, excl.ids)
         IN  IF ~st.measurement_id.bound
             THEN [exit |-> 1, request |-> fetched.request]
             ELSE [exit |-> 0, request |-> fetched.request,
                   st |-> SortResults(st),
                   ip_version |-> api.protocol[st.measurement_id.v],
                   measurement_id |-> st.measurement_id.v]

-----------------------------------------------------------------------------
(* Summary statistics (lines 914-935) *)

RECURSIVE SumSeq(_)
SumSeq(s) == IF s = <<>> THEN 0 ELSE Head(s) + SumSeq(Tail(s))

\* statistics.fmean as the fraction <<sum, n>> and statistics.pstdev by its
\* square, the variance, as the fraction <<n * sum of squares - sum^2, n^2>>
fmean(s) == <<SumSeq(s), Len(s)>>

pvariance(s) ==
    <<Len(s) * SumSeq([i \in 1..Len(s) |-> s[i] * s[i]]) - SumSeq(s) * SumSeq(s),
      Len(s) * Len(s)>>

\* The block printed for a result set.  statistics.fmean raises
\* StatisticsError on an empty list, which nothing catches.
SummaryStats(_results_set_id, m, st) ==
    IF st.response_times = <<>> THEN [exit |-> 1]
    ELSE [exit |-> 0,
          block |->
            [result_set      |-> _results_set_id,
             measurement_id  |-> m,
             total_responses |-> st.total_responses,
             details |->
               IF args.list_slow_probes_only
               THEN [shown           |-> TRUE,
                     slow            |-> st.total_slow,
                     errors          |-> st.total_errors,
                     malformeds      |-> st.total_malformeds,
                     abuf_malformeds |-> st.total_abuf_malformeds,
                     time_range      |-> <<st.timestamps[1],
                                           st.timestamps[Len(st.timestamps)]>>,
                     min    |-> st.response_times[1],
                     avg    |-> fmean(st.response_times),
                     max    |-> st.response_times[Len(st.response_times)],
                     stddev |-> pvariance(st.response_times)]
               ELSE [shown |-> FALSE]]]

-----------------------------------------------------------------------------
(* Probe Property Resolver: load_probe_properties *)

ProbeFields == {"asn_v4", "asn_v6", "country_code", "address_v4", "address_v6"}

\* Placeholder, were asn_v6 left out
PlaceholderWithoutAsn6 == [f \in ProbeFields \ {"asn_v6"} |-> "-"]

\* The record of a probe that neither the cache nor the API knows
Placeholder == [f \in ProbeFields |-> "-"]

\* LookupProbe, were the placeholder record kept in all_probes_dict
LookupProbeKeepPlaceholder(acc, p) ==
    IF p \in DOMAIN acc.all_probes_dict
    THEN [acc EXCEPT !.matched_probe_info = (p :> acc.all_probes_dict[p]) @@ @]
    ELSE IF ripe_probes[p].ok
    THEN LET info == [f \in ProbeFields |-> ripe_probes[p].info[f]]
         IN  [acc EXCEPT !.matched_probe_info = (p :> info) @@ @,
                         !.all_probes_dict = (p :> info) @@ @]
    ELSE [acc EXCEPT !.matched_probe_info = (p :> Placeholder) @@ @,
                     !.all_probes_dict = (p :> Placeholder) @@ @]

\* Lines 866-892: one iteration of the loop over the probe ids; acc holds
\* matched_probe_info and all_probes_dict.  ripe_probes[p] is what Probe(id=p)
\* gives: the probe's properties, or ok FALSE when it raises.
LookupProbe(acc, p) ==
    IF p \in DOMAIN acc.all_probes_dict
    THEN [acc EXCEPT !.matched_probe_info = (p :> acc.all_probes_dict[p]) @@ @]
    ELSE IF ripe_probes[p].ok
    THEN LET info == [f \in ProbeFields |-> ripe_probes[p].info[f]]
         IN  [acc EXCEPT !.matched_probe_info = (p :> info) @@ @,
                         !.all_probes_dict = (p :> info) @@ @]
    ELSE [acc EXCEPT !.matched_probe_info = (p :> Placeholder) @@ @]

RECURSIVE LookupProbes(_, _)
LookupProbes(acc, probe_ids) ==
    IF probe_ids = <<>> THEN acc
    ELSE LookupProbes(LookupProbe(acc, Head(probe_ids)), Tail(probe_ids))

\* load_probe_properties(probe_ids, ppcf): exit(13) when the cache file
\* cannot be read; else the matched probe info and the dictionary written
\* back to the cache file (line 895, whatever the number of misses).  A cache
\* file is what it holds and the number of times the run has written it.
load_probe_properties(probe_ids, cache_file) ==
    IF ~cache_file.readable THEN [exit |-> 13]
    ELSE LET acc == LookupProbes([matched_probe_info |-> <<>>,
                                  all_probes_dict |-> cache_file.dict],
                                 probe_ids)
         IN  [exit |-> 0,
              matched_probe_info |-> acc.matched_probe_info,
              written |-> [readable |-> TRUE, dict |-> acc.all_probes_dict,
                           writes |-> cache_file.writes + 1]]

-----------------------------------------------------------------------------
(* Differential Report Renderer (lines 995-1200) *)

reportable_probe_properties ==
    <<"probe_id", "asn", "country_code", "ip_address", "rt_a", "rt_b",
      "rt_diff", "dns_response">>

\* class fmt: a highlight is the list of the codes written
fmt_bold           == <<"bold">>
fmt_clear          == <<"clear">>
fmt_bright_green   == <<"bright_green">>
fmt_bright_red     == <<"bright_red">>
fmt_bright_yellow  == <<"bright_yellow">>
fmt_bright_magenta == <<"bright_magenta">>
fmt_empty          == <<>>

\* str(x) of a command-line value that is a str or None
StrOrNone(x) == IF x = NoneStr THEN <<"N", "o", "n", "e">> ELSE x

ms == <<"(", "m", "s", ")">>

\* Lines 1009-1023
HeaderLabels ==
    IF args.datetime2 # NoneStr
    THEN <<StrOrNone(args.datetime1) \o ms, StrOrNone(args.datetime2) \o ms>>
    ELSE IF Len(measurement_ids) = 2
    THEN <<Str(measurement_ids[1]) \o ms, Str(measurement_ids[2]) \o ms>>
    ELSE <<Str(measurement_ids[1]) \o ms, <<>> >>

\* AddressWidth, were the column as wide for IPv6 as for IPv4
AddressWidthOfFour ==
    IF report_ip_version = 4 THEN 15
    ELSE IF report_ip_version = 6 THEN 15 ELSE 0

\* Lines 1026-1032
AddressWidth ==
    IF report_ip_version = 4 THEN 15
    ELSE IF report_ip_version = 6 THEN 39 ELSE 0

\* Lines 1034-1084: the header word of a column
HeaderWord(pp) ==
    CASE pp = "probe_id"     -> <<"probe_id">>
      [] pp = "asn"          -> <<"ASN">>
      [] pp = "country_code" -> <<"CC">>
      [] pp = "ip_address"   -> <<"ip_address">>
      [] pp = "rt_a"         -> HeaderLabels[1]
      [] pp = "rt_b"         -> HeaderLabels[2]
      [] pp = "rt_diff"      -> <<"diff(ms) ">>
      [] pp = "dns_response" -> <<"DNSSrvsubstr[:B] ">>

Reportable(pp) == pp \in Range(reportable_probe_properties)

\* An unknown column is logged only.  Its place in the row format reuses the
\* fmt_string_b of the column before it, which is unbound (a NameError that
\* nothing catches) when the unknown column is the first one.
ColumnsCrash ==
    /\ args.probe_properties_to_report # <<>>
    /\ ~Reportable(args.probe_properties_to_report[1])

\* With an unknown column the row format names a field, f_<column>, that
\* str.format is not given: it raises KeyError, which the row's try/except
\* swallows, so the row is not printed.
RowFormatFails == \E i \in 1..Len(args.probe_properties_to_report) :
                      ~Reportable(args.probe_properties_to_report[i])

Header ==
    [words |-> [i \in 1..Len(SelectSeq(args.probe_properties_to_report, Reportable))
                  |-> HeaderWord(SelectSeq(args.probe_properties_to_report,
                                           Reportable)[i])],
     address_width |-> AddressWidth]

\* dict.get(key, default)
Get(d, key, default) == IF key \in DOMAIN d THEN d[key] ELSE default

NoneToDash(x) == IF x = None THEN "-" ELSE x

\* RtDiff, were a response time of 0 a response
RtDiffNonNegative(rt_a, rt_b) == IF rt_a >= 0 /\ rt_b >= 0 THEN rt_b - rt_a ELSE 0

\* RtDiff, were the response time of set 0 alone tested
RtDiffFirstPositive(rt_a, rt_b) == IF rt_a > 0 THEN rt_b - rt_a ELSE 0

\* Lines 1127-1130
RtDiff(rt_a, rt_b) == IF rt_a > 0 /\ rt_b > 0 THEN rt_b - rt_a ELSE 0

\* RtDiffHighlight, were a diff equal to the threshold above it
RtDiffHighlightAtThreshold(rt_diff) ==
    IF rt_diff >= args.latency_diff_threshold
    THEN [fmt_chars |-> fmt_bold \o fmt_bright_red,
          emph_char |-> IF args.emphasis_chars THEN "*" ELSE " "]
    ELSE IF rt_diff < args.latency_diff_threshold * (-1)
    THEN [fmt_chars |-> fmt_bold \o fmt_bright_green, emph_char |-> " "]
    ELSE IF rt_diff = 0
    THEN [fmt_chars |-> fmt_bright_magenta, emph_char |-> " "]
    ELSE [fmt_chars |-> fmt_clear, emph_char |-> " "]

\* Lines 1131-1142: the highlight and the emphasis character of the diff
RtDiffHighlight(rt_diff) ==
    IF rt_diff > args.latency_diff_threshold
    THEN [fmt_chars |-> fmt_bold \o fmt_bright_red,
          emph_char |-> IF args.emphasis_chars THEN "*" ELSE " "]
    ELSE IF rt_diff < args.latency_diff_threshold * (-1)
    THEN [fmt_chars |-> fmt_bold \o fmt_bright_green, emph_char |-> " "]
    ELSE IF rt_diff = 0
    THEN [fmt_chars |-> fmt_bright_magenta, emph_char |-> " "]
    ELSE [fmt_chars |-> fmt_clear, emph_char |-> " "]

\* Lines 1143-1152: the DNS answer substrings of the two sets compared
SitesCompare(dns_a, dns_b) ==
    IF dns_a = dns_b
    THEN [sites_string |-> dns_a, fmt_chars |-> fmt_clear, emph_char |-> " "]
    ELSE [sites_string |-> dns_a \o <<":">> \o dns_b,
          fmt_chars |-> fmt_bold \o fmt_bright_red,
          emph_char |-> IF args.emphasis_chars THEN "!" ELSE " "]

\* str.lower() of a token, for the tokens of the model with capitals
Lower(tok) ==
    CASE tok = "Unknown"  -> "unknown"
      [] tok = "NO_REPLY" -> "no_reply"
      [] OTHER            -> tok

\* re.match(word, s, flags=re.IGNORECASE) for a one-token word
StartsWith(s, word) == s # <<>> /\ Lower(s[1]) = word

\* Lines 1164-1171: the highlight of one response time, with colour
RtHighlight(rt) ==
    IF rt > args.slow_threshold THEN fmt_bright_yellow
    ELSE IF rt < 0 THEN fmt_bright_magenta
    ELSE fmt_clear

\* SitesHighlight, were a string with a ':' not set apart
SitesHighlightAnyString(sites_string, sites_fmt_chars) ==
    IF StartsWith(sites_string, "unknown") THEN fmt_bright_magenta
    ELSE IF StartsWith(sites_string, "no_reply") THEN fmt_bright_yellow
    ELSE fmt_clear

\* Lines 1172-1183: the highlight of the DNS answer column, with colour.
\* Line 1174 compares (!=) where it means to assign, so a string with a ':'
\* keeps the highlight it has.
SitesHighlight(sites_string, sites_fmt_chars) ==
    IF ":" \in Range(sites_string) THEN sites_fmt_chars
    ELSE IF StartsWith(sites_string, "unknown") THEN fmt_bright_magenta
    ELSE IF StartsWith(sites_string, "no_reply") THEN fmt_bright_yellow
    ELSE fmt_clear

\* RowListed, were a response time equal to the threshold a slow one
RowListedAtThreshold(rt_a, rt_b) ==
    \/ ~args.list_slow_probes_only
    \/ (args.list_slow_probes_only
        /\ (rt_a >= args.slow_threshold \/ rt_b >= args.slow_threshold))

\* Line 1154: whether the row of a probe is printed
RowListed(rt_a, rt_b) ==
    \/ ~args.list_slow_probes_only
    \/ (args.list_slow_probes_only
        /\ (rt_a > args.slow_threshold \/ rt_b > args.slow_threshold))

\* Lines 1104-1114: the properties of a listed probe after its row is
\* prepared, with the ASN and the address to display
DisplayProperties(props) ==
    LET asn_key  == IF report_ip_version = 6 THEN "asn_v6" ELSE "asn_v4"
        addr_key == IF report_ip_version = 6 THEN "address_v6" ELSE "address_v4"
    IN  [f \in DOMAIN props \cup {"display_asn", "display_address"} |->
            CASE f = "display_asn"     -> NoneToDash(Get(props, asn_key, "-"))
              [] f = "display_address" -> NoneToDash(Get(props, addr_key, "-"))
              [] f = "country_code"    -> NoneToDash(props[f])
              [] OTHER                 -> props[f]]

\* ProbeRow, were the clear code written with colour disabled too
ProbeRowClearKept(probe_id, props, pm_rt, pm_dns) ==
    LET rt_a   == Get(pm_rt, ResultsAndProbesId(0, probe_id), -1)
        rt_b   == Get(pm_rt, ResultsAndProbesId(1, probe_id), -1)
        dns_a  == Get(pm_dns, ResultsAndProbesId(0, probe_id), unknown)
        dns_b  == Get(pm_dns, ResultsAndProbesId(1, probe_id), unknown)
        rt_diff == RtDiff(rt_a, rt_b)
        diff   == RtDiffHighlight(rt_diff)
        sites  == SitesCompare(dns_a, dns_b)
    IN  [ printed |-> RowListed(rt_a, rt_b) /\ ~RowFormatFails,
          f_probe_id     |-> probe_id,
          f_asn          |-> DisplayProperties(props)["display_asn"],
          f_country_code |-> DisplayProperties(props)["country_code"],
          f_ip_address   |-> DisplayProperties(props)["display_address"],
          f_rt_a_fmt_chars |->
              IF args.no_color THEN fmt_empty ELSE RtHighlight(rt_a),
          f_rt_a |-> rt_a,
          f_rt_b_fmt_chars |->
              IF args.no_color THEN fmt_empty ELSE RtHighlight(rt_b),
          f_rt_b |-> rt_b,
          f_rt_diff_fmt_chars |->
              IF args.no_color THEN fmt_empty ELSE diff.fmt_chars,
          f_rt_diff      |-> rt_diff,
          f_rt_emph_char |-> diff.emph_char,
          f_sites_fmt_chars |->
              IF args.no_color THEN fmt_empty
              ELSE SitesHighlight(sites.sites_string, sites.fmt_chars),
          f_dns_response    |-> sites.sites_string,
          f_sites_emph_char |-> sites.emph_char,
          f_fmt_clear |-> fmt_clear ]

\* Lines 1100-1200: the row of a probe, as the keyword arguments given to
\* str.format, and whether it is printed; pm_rt and pm_dns are the two pm_
\* dictionaries
ProbeRow(probe_id, props, pm_rt, pm_dns) ==
    LET rt_a   == Get(pm_rt, ResultsAndProbesId(0, probe_id), -1)
        rt_b   == Get(pm_rt, ResultsAndProbesId(1, probe_id), -1)
        dns_a  == Get(pm_dns, ResultsAndProbesId(0, probe_id), unknown)
        dns_b  == Get(pm_dns, ResultsAndProbesId(1, probe_id), unknown)
        rt_diff == RtDiff(rt_a, rt_b)
        diff   == RtDiffHighlight(rt_diff)
        sites  == SitesCompare(dns_a, dns_b)
    IN  [ printed |-> RowListed(rt_a, rt_b) /\ ~RowFormatFails,
          f_probe_id     |-> probe_id,
          f_asn          |-> DisplayProperties(props)["display_asn"],
          f_country_code |-> DisplayProperties(props)["country_code"],
          f_ip_address   |-> DisplayProperties(props)["display_address"],
          f_rt_a_fmt_chars |->
              IF args.no_color THEN fmt_empty ELSE RtHighlight(rt_a),
          f_rt_a |-> rt_a,
          f_rt_b_fmt_chars |->
              IF args.no_color THEN fmt_empty ELSE RtHighlight(rt_b),
          f_rt_b |-> rt_b,
          f_rt_diff_fmt_chars |->
              IF args.no_color THEN fmt_empty ELSE diff.fmt_chars,
          f_rt_diff      |-> rt_diff,
          f_rt_emph_char |-> diff.emph_char,
          f_sites_fmt_chars |->
              IF args.no_color THEN fmt_empty
              ELSE SitesHighlight(sites.sites_string, sites.fmt_chars),
          f_dns_response    |-> sites.sites_string,
          f_sites_emph_char |-> sites.emph_char,
          f_fmt_clear |-> IF args.no_color THEN fmt_empty ELSE fmt_clear ]

\* The rows of the probes of a sorted list
ProbeRows(probe_ids, matched, pm_rt, pm_dns) ==
    [i \in 1..Len(probe_ids) |->
        ProbeRow(probe_ids[i], matched[probe_ids[i]], pm_rt, pm_dns)]

\* The two setdefault calls of lines 1119-1120 and 1143 add the missing keys
\* of the listed probes to the pm_ dictionaries
WithDefaults(pm, probe_ids, default) ==
    LET keys == {ResultsAndProbesId(s, probe_ids[i]) :
                    s \in {0, 1}, i \in 1..Len(probe_ids)}
    IN  [k \in keys \cup DOMAIN pm |-> IF k \in DOMAIN pm THEN pm[k] ELSE default]

-----------------------------------------------------------------------------
(* The run: the module-level code, one action per step *)

\* The exit codes of the fatal conditions (lines 425, 528, 553, 612, 861, 963)
ExitCodes ==
    [ InvalidDateTime     |-> 2,
      NoDataSources       |-> 3,
      TooManyDataSources  |-> 3,
      RemoteRequestFailed |-> 11,
      CacheUnreadable     |-> 13,
      NoCommonProbes      |-> 14 ]

\* exit(code), or an exception that nothing catches (code 1)
Exit(code) == pc' = "exit" /\ exit_code' = code

\* `if args[0].datetime1:` holds for a str that is not empty
Supplied(dt) == dt # NoneStr /\ dt # <<>>

\* Lines 510-515: validate the supplied date-times
ValidateDateTimes ==
    /\ pc = "validate"
    /\ LET r1 == IF Supplied(args.datetime1)
                 THEN user_datetime_to_valid_unixtime(args.datetime1)
                 ELSE [exit |-> 0, value |-> unixtimes[1]]
           r2 == IF Supplied(args.datetime2)
                 THEN user_datetime_to_valid_unixtime(args.datetime2)
                 ELSE [exit |-> 0, value |-> unixtimes[2]]
       IN  IF r1.exit # 0
           THEN Exit(r1.exit) /\ UNCHANGED unixtimes
           ELSE IF r2.exit # 0
           THEN Exit(r2.exit) /\ unixtimes' = <<r1.value, unixtimes[2]>>
           ELSE /\ pc' = "sources"
                /\ unixtimes' = <<r1.value, r2.value>>
                /\ UNCHANGED exit_code
    /\ UNCHANGED <<world_vars, results_set_id, last_results_set_id, m_vars,
                   api_requests, reconcile_vars, p_probe_properties, out_vars>>

\* Lines 526-553: how many result sets there are.  unixtimes is the list
\* [0, 0] of line 430, so its length is 2 whatever was supplied.
CheckDataSources ==
    /\ pc = "sources"
    /\ IF Len(data_sources) = 0
       THEN Exit(3) /\ UNCHANGED <<data_sources, last_results_set_id>>
       ELSE IF Len(data_sources) = 1
       THEN IF Len(unixtimes) = 1
            THEN /\ last_results_set_id' = 0
                 /\ pc' = "load"
                 /\ UNCHANGED <<data_sources, exit_code>>
            ELSE IF Len(unixtimes) = 2
            THEN /\ data_sources' = Append(data_sources, data_sources[1])
                 /\ last_results_set_id' = 1
                 /\ pc' = "load"
                 /\ UNCHANGED exit_code
            ELSE Exit(3) /\ UNCHANGED <<data_sources, last_results_set_id>>
       ELSE IF Len(data_sources) = 2
       THEN /\ last_results_set_id' = 1
            /\ pc' = "load"
            /\ UNCHANGED <<data_sources, exit_code>>
       ELSE Exit(3) /\ UNCHANGED <<data_sources, last_results_set_id>>
    /\ UNCHANGED <<args, api, exclusion_file, ppcf, ripe_probes, unixtimes,
                   results_set_id, m_vars, api_requests, reconcile_vars,
                   p_probe_properties, out_vars>>

\* d[k] = v of a Python dict
Put(d, k, v) == (k :> v) @@ d

\* Lines 906-943: one iteration of the data loading and summary stats loop
DataLoadingLoop ==
    /\ pc = "load"
    /\ results_set_id <= last_results_set_id
    /\ LET sid == results_set_id
           r == process_request(data_sources[sid + 1], sid, unixtimes[sid + 1])
           s == SummaryStats(sid, r.measurement_id, r.st)
       IN  /\ api_requests' = api_requests \o r.request
           /\ IF r.exit # 0
              THEN /\ Exit(r.exit)
                   /\ UNCHANGED <<m_vars, results_set_id, summary_out>>
              ELSE /\ m_ip_version' = Put(m_ip_version, sid, r.ip_version)
                   /\ m_total_responses' =
                          Put(m_total_responses, sid, r.st.total_responses)
                   /\ m_total_malformeds' =
                          Put(m_total_malformeds, sid, r.st.total_malformeds)
                   /\ m_total_abuf_malformeds' =
                          Put(m_total_abuf_malformeds, sid,
                              r.st.total_abuf_malformeds)
                   /\ m_total_errors' =
                          Put(m_total_errors, sid, r.st.total_errors)
                   /\ m_total_slow' = Put(m_total_slow, sid, r.st.total_slow)
                   /\ m_response_times' =
                          Put(m_response_times, sid, r.st.response_times)
                   /\ m_timestamps' = Put(m_timestamps, sid, r.st.timestamps)
                   /\ m_seen_probe_ids' =
                          Put(m_seen_probe_ids, sid, r.st.seen_probe_ids)
                   /\ pm_response_time' = r.st.pm_rt
                   /\ pm_dns_server_substring' = r.st.pm_dns
                   /\ measurement_ids' = Append(measurement_ids, r.measurement_id)
                   /\ IF args.print_summary_stats /\ s.exit # 0
                      THEN /\ Exit(s.exit)
                           /\ UNCHANGED <<m_seen_probe_ids_set, results_set_id,
                                          summary_out>>
                      ELSE /\ summary_out' =
                                 IF args.print_summary_stats
                                 THEN Append(summary_out, s.block)
                                 ELSE summary_out
                           /\ m_seen_probe_ids_set' =
                                 Put(m_seen_probe_ids_set, sid,
                                     Range(r.st.seen_probe_ids))
                           /\ results_set_id' = sid + 1
                           /\ pc' = IF sid + 1 <= last_results_set_id
                                    THEN "load" ELSE "reconcile"
                           /\ UNCHANGED exit_code
    /\ UNCHANGED <<world_vars, unixtimes, last_results_set_id, reconcile_vars,
                   p_probe_properties, header_out, rows_out>>

\* Reconcile, were two sets of no probes not held disjoint
ReconcileUnlessBothEmpty ==
    /\ pc = "reconcile"
    /\ IF last_results_set_id > 0
       THEN IF /\ m_seen_probe_ids_set[0] \cap m_seen_probe_ids_set[1] = {}
               /\ m_seen_probe_ids_set[0] \cup m_seen_probe_ids_set[1] # {}
            THEN Exit(14) /\ UNCHANGED reconcile_vars
            ELSE /\ common_probe_ids' =
                       ListOfSet(m_seen_probe_ids_set[0]
                                 \cap m_seen_probe_ids_set[1])
                 /\ uniq_seen_probe_ids' =
                       ListOfSet(m_seen_probe_ids_set[0]
                                 \cup m_seen_probe_ids_set[1])
                 /\ report_ip_version' =
                       IF m_ip_version[0] # m_ip_version[1]
                       THEN 4 ELSE m_ip_version[0]
                 /\ pc' = "report"
                 /\ UNCHANGED exit_code
       ELSE /\ uniq_seen_probe_ids' = ListOfSet(m_seen_probe_ids_set[0])
            /\ common_probe_ids' = ListOfSet(m_seen_probe_ids_set[0])
            /\ report_ip_version' = 4
            /\ pc' = "report"
            /\ UNCHANGED exit_code
    /\ UNCHANGED <<world_vars, unixtimes, results_set_id, last_results_set_id,
                   m_vars, api_requests, p_probe_properties, out_vars>>

\* Reconcile, were the probes of all-probes mode the common ones
ReconcileCommonOnly ==
    /\ pc = "reconcile"
    /\ IF last_results_set_id > 0
       THEN IF m_seen_probe_ids_set[0] \cap m_seen_probe_ids_set[1] = {}
            THEN Exit(14) /\ UNCHANGED reconcile_vars
            ELSE /\ common_probe_ids' =
                       ListOfSet(m_seen_probe_ids_set[0]
                                 \cap m_seen_probe_ids_set[1])
                 /\ uniq_seen_probe_ids' =
                       ListOfSet(m_seen_probe_ids_set[0]
                                 \cap m_seen_probe_ids_set[1])
                 /\ report_ip_version' =
                       IF m_ip_version[0] # m_ip_version[1]
                       THEN 4 ELSE m_ip_version[0]
                 /\ pc' = "report"
                 /\ UNCHANGED exit_code
       ELSE /\ uniq_seen_probe_ids' = ListOfSet(m_seen_probe_ids_set[0])
            /\ common_probe_ids' = ListOfSet(m_seen_probe_ids_set[0])
            /\ report_ip_version' = 4
            /\ pc' = "report"
            /\ UNCHANGED exit_code
    /\ UNCHANGED <<world_vars, unixtimes, results_set_id, last_results_set_id,
                   m_vars, api_requests, p_probe_properties, out_vars>>

\* Lines 951-987: the probes of the two sets, and the IP version to report
Reconcile ==
    /\ pc = "reconcile"
    /\ IF last_results_set_id > 0
       THEN IF m_seen_probe_ids_set[0] \cap m_seen_probe_ids_set[1] = {}
            THEN Exit(14) /\ UNCHANGED reconcile_vars
            ELSE /\ common_probe_ids' =
                       ListOfSet(m_seen_probe_ids_set[0]
                                 \cap m_seen_probe_ids_set[1])
                 /\ uniq_seen_probe_ids' =
                       ListOfSet(m_seen_probe_ids_set[0]
                                 \cup m_seen_probe_ids_set[1])
                 /\ report_ip_version' =
                       IF m_ip_version[0] # m_ip_version[1]
                       THEN 4 ELSE m_ip_version[0]
                 /\ pc' = "report"
                 /\ UNCHANGED exit_code
       ELSE /\ uniq_seen_probe_ids' = ListOfSet(m_seen_probe_ids_set[0])
            /\ common_probe_ids' = ListOfSet(m_seen_probe_ids_set[0])
            /\ report_ip_version' = 4
            /\ pc' = "report"
            /\ UNCHANGED exit_code
    /\ UNCHANGED <<world_vars, unixtimes, results_set_id, last_results_set_id,
                   m_vars, api_requests, p_probe_properties, out_vars>>

\* Report, were the header written before the cache file is read
ReportHeaderBeforeCache ==
    /\ pc = "report"
    /\ IF args.do_not_list_probes
       THEN /\ pc' = "done"
            /\ UNCHANGED <<exit_code, ppcf, p_probe_properties,
                           pm_response_time, pm_dns_server_substring, out_vars>>
       ELSE LET probe_ids_to_list ==
                    SortStrs(IF args.all_probes THEN uniq_seen_probe_ids
                             ELSE common_probe_ids)
                loaded == load_probe_properties(probe_ids_to_list, ppcf)
                pm_rt  == WithDefaults(pm_response_time, probe_ids_to_list, -1)
                pm_dns == WithDefaults(pm_dns_server_substring,
                                       probe_ids_to_list, unknown)
                rows   == ProbeRows(probe_ids_to_list,
                                    loaded.matched_probe_info, pm_rt, pm_dns)
            IN  IF loaded.exit # 0
                THEN /\ Exit(loaded.exit)
                     /\ header_out' = Append(header_out, Header)
                     /\ UNCHANGED <<ppcf, p_probe_properties, pm_response_time,
                                    pm_dns_server_substring, summary_out,
                                    rows_out>>
                ELSE IF ColumnsCrash
                THEN /\ Exit(1)
                     /\ ppcf' = loaded.written
                     /\ p_probe_properties' = loaded.matched_probe_info
                     /\ UNCHANGED <<pm_response_time, pm_dns_server_substring,
                                    out_vars>>
                ELSE /\ pc' = "done"
                     /\ ppcf' = loaded.written
                     /\ p_probe_properties' =
                            [p \in DOMAIN loaded.matched_probe_info |->
                                DisplayProperties(loaded.matched_probe_info[p])]
                     /\ header_out' = IF args.no_header THEN header_out
                                      ELSE Append(header_out, Header)
                     /\ pm_response_time' = pm_rt
                     /\ pm_dns_server_substring' = pm_dns
                     /\ rows_out' = rows_out
                            \o SelectSeq(rows, LAMBDA row : row.printed)
                     /\ UNCHANGED <<exit_code, summary_out>>
    /\ UNCHANGED <<args, data_sources, api, exclusion_file, ripe_probes,
                   unixtimes, results_set_id, last_results_set_id,
                   m_ip_version, m_total_responses, m_total_malformeds,
                   m_total_abuf_malformeds, m_total_errors, m_total_slow,
                   m_response_times, m_timestamps, m_seen_probe_ids,
                   m_seen_probe_ids_set, measurement_ids, api_requests,
                   reconcile_vars>>

\* Lines 995-1200: the per-probe report.  The cache file handed to
\* load_probe_properties is the one check_update_probe_properties_cache_file
\* leaves (the refresh from the RIPE archive is not part of the model).
Report ==
    /\ pc = "report"
    /\ IF args.do_not_list_probes
       THEN /\ pc' = "done"
            /\ UNCHANGED <<exit_code, ppcf, p_probe_properties,
                           pm_response_time, pm_dns_server_substring, out_vars>>
       ELSE LET probe_ids_to_list ==
                    SortStrs(IF args.all_probes THEN uniq_seen_probe_ids
                             ELSE common_probe_ids)
                loaded == load_probe_properties(probe_ids_to_list, ppcf)
                pm_rt  == WithDefaults(pm_response_time, probe_ids_to_list, -1)
                pm_dns == WithDefaults(pm_dns_server_substring,
                                       probe_ids_to_list, unknown)
                rows   == ProbeRows(probe_ids_to_list,
                                    loaded.matched_probe_info, pm_rt, pm_dns)
            IN  IF loaded.exit # 0
                THEN /\ Exit(loaded.exit)
                     /\ UNCHANGED <<ppcf, p_probe_properties, pm_response_time,
                                    pm_dns_server_substring, out_vars>>
                ELSE IF ColumnsCrash
                THEN /\ Exit(1)
                     /\ ppcf' = loaded.written
                     /\ p_probe_properties' = loaded.matched_probe_info
                     /\ UNCHANGED <<pm_response_time, pm_dns_server_substring,
                                    out_vars>>
                ELSE /\ pc' = "done"
                     /\ ppcf' = loaded.written
                     /\ p_probe_properties' =
                            [p \in DOMAIN loaded.matched_probe_info |->
                                DisplayProperties(loaded.matched_probe_info[p])]
                     /\ header_out' = IF args.no_header THEN header_out
                                      ELSE Append(header_out, Header)
                     /\ pm_response_time' = pm_rt
                     /\ pm_dns_server_substring' = pm_dns
                     /\ rows_out' = rows_out
                            \o SelectSeq(rows, LAMBDA row : row.printed)
                     /\ UNCHANGED <<exit_code, summary_out>>
    /\ UNCHANGED <<args, data_sources, api, exclusion_file, ripe_probes,
                   unixtimes, results_set_id, last_results_set_id,
                   m_ip_version, m_total_responses, m_total_malformeds,
                   m_total_abuf_malformeds, m_total_errors, m_total_slow,
                   m_response_times, m_timestamps, m_seen_probe_ids,
                   m_seen_probe_ids_set, measurement_ids, api_requests,
                   reconcile_vars>>

Next ==
    \/ ValidateDateTimes
    \/ CheckDataSources
    \/ DataLoadingLoop
    \/ Reconcile
    \/ Report

\* The state of the script when its module-level code starts (lines 430-490)
ScriptStart ==
    /\ pc = "validate"
    /\ exit_code = 0
    /\ unixtimes = <<0, 0>>
    /\ results_set_id = 0
    /\ last_results_set_id = 0
    /\ measurement_ids = <<>>
    /\ m_ip_version = <<>>
    /\ m_total_responses = <<>>
    /\ m_total_malformeds = <<>>
    /\ m_total_abuf_malformeds = <<>>
    /\ m_total_errors = <<>>
    /\ m_total_slow = <<>>
    /\ m_response_times = <<>>
    /\ m_timestamps = <<>>
    /\ m_seen_probe_ids = <<>>
    /\ m_seen_probe_ids_set = <<>>
    /\ pm_response_time = <<>>
    /\ pm_dns_server_substring = <<>>
    /\ common_probe_ids = <<>>
    /\ uniq_seen_probe_ids = <<>>
    /\ report_ip_version = 4
    /\ p_probe_properties = <<>>
    /\ api_requests = <<>>
    /\ summary_out = <<>>
    /\ header_out = <<>>
    /\ rows_out = <<>>

-----------------------------------------------------------------------------
(* The outside world of a run *)

\* The defaults of options_sample_dict (lines 106-195)
DefaultArgs ==
    [ datetime1 |-> NoneStr,
      datetime2 |-> NoneStr,
      all_probes |-> FALSE,
      no_color |-> FALSE,
      emphasis_chars |-> FALSE,
      no_header |-> FALSE,
      do_not_list_probes |-> FALSE,
      list_slow_probes_only |-> FALSE,
      print_summary_stats |-> FALSE,
      dns_response_item_occurence_to_return |-> 1,
      latency_diff_threshold |-> 5,
      slow_threshold |-> 50,
      split_char |-> ".",
      exclusion_list_file |-> NoneStr,
      probe_properties_to_report |-> reportable_probe_properties ]

\* The two measurements of the model and the probes that answer them
MsmIds == {12016241, 12016242}
MsmOf(sid) == IF sid = 0 THEN 12016241 ELSE 12016242
Probes == {7, 10, 12}

\* A data source: a measurement id that is no file, a readable local file
\* holding a JSON list of results, or neither
MsmSource(id) == [name |-> Str(id), readable |-> FALSE, content |-> <<>>]
FileSource(content) ==
    [name |-> <<"f">>, readable |-> TRUE, content |-> content]
OtherSource == [name |-> <<"x">>, readable |-> FALSE, content |-> <<>>]
\* A measurement id with a newline after it
NewlineSource(id) ==
    [name |-> Str(id) \o <<"\n">>, readable |-> FALSE, content |-> <<>>]

\* The answer buffer of a response: none, or one with its answers; an answer
\* has a data list or none
NoAbuf == [present |-> FALSE]
Abuf(is_malformed, answers) ==
    [present |-> TRUE, is_malformed |-> is_malformed, answers |-> answers]
TextAnswer(text) == [has_data |-> TRUE, data |-> <<text>>]
OtherAnswer == [has_data |-> FALSE]

\* A result as DnsResult parses it.  A result that is neither malformed nor
\* an error has at least one response, with a response time.
MalformedResult(p, msm) ==
    [probe_id |-> p, measurement_id |-> msm, is_malformed |-> TRUE,
     is_error |-> FALSE, responses |-> <<>>, created_timestamp |-> 0]
ErrorResult(p, msm) ==
    [probe_id |-> p, measurement_id |-> msm, is_malformed |-> FALSE,
     is_error |-> TRUE, responses |-> <<>>, created_timestamp |-> 0]
OkResult(p, msm, rt, ts, abuf) ==
    [probe_id |-> p, measurement_id |-> msm, is_malformed |-> FALSE,
     is_error |-> FALSE,
     responses |-> <<[response_time |-> rt, abuf |-> abuf]>>,
     created_timestamp |-> ts]

ams == <<"res100", ".", "ams", ".", "rrdns">>
fra == <<"res200", ".", "fra", ".", "rrdns">>

\* The lists of at most n elements of S
ListsUpTo(S, n) == UNION {[1..k -> S] : k \in 0..n}

ApiOf(reply0, reply1, protocol) ==
    [replies |-> (0 :> reply0) @@ (1 :> reply1),
     protocol |-> protocol, interval |-> 600]

Success(results) == [is_success |-> TRUE, results |-> results]
Failure == [is_success |-> FALSE, results |-> <<>>]

\* Every probe known to the cache, none to the API
AllCached ==
    [readable |-> TRUE, writes |-> 0,
     dict |-> [p \in {Str(q) : q \in Probes} |->
                 [f \in ProbeFields |-> IF f = "asn_v6" THEN None ELSE f]]]
NoRipeProbes == [p \in {Str(q) : q \in Probes} |-> [ok |-> FALSE]]

-----------------------------------------------------------------------------
(* SpecIngest: process_request on every short list of results *)

MaxRecs == 3

IngestRecords ==
    {MalformedResult(p, 12016241) : p \in {7, 10}}
    \cup {ErrorResult(p, 12016241) : p \in {7, 10}}
    \cup {OkResult(p, 12016241, x[1], x[2], Abuf(FALSE, <<TextAnswer(ams)>>)) :
            p \in {7, 10}, x \in {<<30, 200>>, <<60, 100>>, <<60, 200>>}}
    \cup {OkResult(p, 12016241, 30, 200, Abuf(FALSE, <<TextAnswer(fra)>>)) :
            p \in {7, 10}}

InitIngest ==
    /\ ScriptStart
    /\ \E results \in ListsUpTo(IngestRecords, MaxRecs),
          excluded \in {<<>>, <<Str(7)>>} :
          /\ args = [DefaultArgs EXCEPT !.exclusion_list_file =
                        IF excluded = <<>> THEN NoneStr ELSE <<"e">>]
          /\ exclusion_file = [readable |-> TRUE, lines |-> excluded]
          /\ api = ApiOf(Success(results),
                         Success(<<OkResult(10, 12016242, 42, 150,
                                            Abuf(FALSE, <<TextAnswer(fra)>>))>>),
                         [id \in MsmIds |-> 4])
    /\ data_sources = <<MsmSource(12016241), MsmSource(12016242)>>
    /\ ppcf = AllCached
    /\ ripe_probes = NoRipeProbes

SpecIngest == InitIngest /\ [][Next]_vars

-----------------------------------------------------------------------------
(* What the claims speak of *)

\* The results process_request reads for a result set, and the probe ids it
\* excludes
InputOf(sid) ==
    IF data_sources[sid + 1].readable THEN data_sources[sid + 1].content
    ELSE api.replies[sid].results

ExcludedIds ==
    IF args.exclusion_list_file = NoneStr THEN <<>> ELSE exclusion_file.lines

IsExcluded(r) == Str(r.probe_id) \in Range(ExcludedIds)
IsWellFormed(r) == ~r.is_malformed /\ ~r.is_error

\* The results of a list that satisfy P, in order
Kept(results, P(_)) == SelectSeq(results, P)

\* process_request has returned for the result set
Ingested(sid) == pc # "exit" /\ results_set_id > sid

\* The run is right after process_request returned for the result set
JustIngested(sid) == pc \in {"load", "reconcile"} /\ results_set_id = sid + 1

IsSorted(s) == \A i \in 1..(Len(s) - 1) : s[i] <= s[i + 1]

\* Two lists hold the same values, each as many times
SameBag(s, t) ==
    /\ Len(s) = Len(t)
    /\ \A x \in Range(s) \cup Range(t) :
          Cardinality({i \in 1..Len(s) : s[i] = x})
          = Cardinality({i \in 1..Len(t) : t[i] = x})

-----------------------------------------------------------------------------
(* Claims *)

C9_ExcludedResultChangesNothing ==
    JustIngested(0) =>
        LET start == [LoopStart([bound |-> TRUE,
                                 v |-> IntOf(SubSeq(data_sources[1].name, 1, 8))])
                        EXCEPT !.pm_rt = <<>>, !.pm_dns = <<>>]
            without == SortResults(IngestResults(start,
                           Kept(InputOf(0), LAMBDA r : ~IsExcluded(r)),
                           0, <<>>))
        IN  /\ m_total_responses[0] = without.total_responses
            /\ m_total_malformeds[0] = without.total_malformeds
            /\ m_total_abuf_malformeds[0] = without.total_abuf_malformeds
            /\ m_total_errors[0] = without.total_errors
            /\ m_total_slow[0] = without.total_slow
            /\ m_response_times[0] = without.response_times
            /\ m_timestamps[0] = without.timestamps
            /\ m_seen_probe_ids[0] = without.seen_probe_ids
            /\ pm_response_time = without.pm_rt
            /\ pm_dns_server_substring = without.pm_dns

\* C9 witness: a list with an excluded result between two results that are
\* not excluded has been ingested.
C9_Witness ==
    /\ JustIngested(0)
    /\ Len(InputOf(0)) = 3
    /\ ~IsExcluded(InputOf(0)[1])
    /\ IsExcluded(InputOf(0)[2]) /\ IsWellFormed(InputOf(0)[2])
    /\ ~IsExcluded(InputOf(0)[3])
    /\ m_total_responses[0] = 2

\* C10: after process_request the response-time list and the timestamp list
\* of the result set are non-decreasing, and each is a permutation of the
\* values of the well-formed results that are not excluded.
C10_ListsSortedPermutations ==
    Ingested(0) =>
        LET recorded == Kept(InputOf(0),
                             LAMBDA r : ~IsExcluded(r) /\ IsWellFormed(r))
        IN  /\ IsSorted(m_response_times[0])
            /\ IsSorted(m_timestamps[0])
            /\ SameBag(m_response_times[0],
                       [i \in 1..Len(recorded) |->
                           recorded[i].responses[1].response_time])
            /\ SameBag(m_timestamps[0],
                       [i \in 1..Len(recorded) |->
                           recorded[i].created_timestamp])

\* C10 witness: two well-formed results arrived with the response times in
\* descending and the timestamps in ascending order, and a third after them.
C10_Witness ==
    /\ Ingested(0)
    /\ Len(InputOf(0)) = 3
    /\ \A i \in 1..3 : IsWellFormed(InputOf(0)[i]) /\ ~IsExcluded(InputOf(0)[i])
    /\ InputOf(0)[1].responses[1].response_time
         > InputOf(0)[2].responses[1].response_time
    /\ InputOf(0)[1].created_timestamp < InputOf(0)[2].created_timestamp
    /\ m_response_times[0] = <<30, 60, 60>>

-----------------------------------------------------------------------------
(* SpecTime: runs that differ in --datetime1 and --datetime2 *)

\* Unix times between oldest_result_unixtime and current_unixtime
EpochSamples ==
    {oldest_result_unixtime, 1500000000, 1612011230, current_unixtime - 1}

\* 20100101 (oldest_result_unixtime), 20200101, 202001011230, 20200101_1230,
\* 2020-01-01-12:30, 20200101 12:30
DateTimeStrings ==
    { Str(20100101),
      Str(20200101),
      Str(20200101) \o Str(1230),
      Str(20200101) \o <<"_">> \o Str(1230),
      Str(2020) \o <<"-", "0", "1", "-", "0", "1", "-">> \o Str(12)
          \o <<":">> \o Str(30),
      Str(20200101) \o <<" ">> \o Str(12) \o <<":">> \o Str(30) }

\* 202311142213, the minute of current_unixtime
NowString == Str(20231114) \o Str(2213)

\* Strings no format gives a valid time for: current_unixtime, the minute
\* after it, a day before 2010, a day after 2037, the 31st of February, a
\* word
RejectedStrings ==
    { NowString,
      Str(20231114) \o Str(2214),
      Str(19991231),
      Str(20380101),
      Str(20200231),
      <<"n", "o", "w">> }

\* 202311142212, the last minute before current_unixtime
LastMinute == Str(20231114) \o Str(2212)

InitTime ==
    /\ ScriptStart
    /\ \E d1 \in {NoneStr, <<>>, LastMinute}
                 \cup {Str(e) : e \in EpochSamples}
                 \cup DateTimeStrings \cup RejectedStrings,
          d2 \in {NoneStr, Str(20200102), Str(1500000000), <<"n", "o", "w">>} :
          args = [DefaultArgs EXCEPT !.datetime1 = d1, !.datetime2 = d2]
    /\ exclusion_file = [readable |-> TRUE, lines |-> <<>>]
    /\ api = ApiOf(Success(<<OkResult(10, 12016241, 30, 100,
                                      Abuf(FALSE, <<TextAnswer(ams)>>))>>),
                   Success(<<OkResult(10, 12016242, 42, 150,
                                      Abuf(FALSE, <<TextAnswer(fra)>>))>>),
                   [id \in MsmIds |-> 4])
    /\ data_sources = <<MsmSource(12016241), MsmSource(12016242)>>
    /\ ppcf = AllCached
    /\ ripe_probes = NoRipeProbes

SpecTime == InitTime /\ [][Next]_vars

\* C2: for every unix time e with oldest_result_unixtime <= e <
\* current_unixtime, --datetime1 given as the decimal string of e is
\* normalised to e: once the date-times are validated unixtimes[0] is e and
\* the run has not ended with exit code 2.
C2_EpochStringRoundTrip ==
    \A e \in EpochSamples :
        (args.datetime1 = Str(e) /\ pc # "validate")
            => /\ unixtimes[1] = e
               /\ ~Supplied(args.datetime2) => ~(pc = "exit" /\ exit_code = 2)

-----------------------------------------------------------------------------
(* Spec: whole runs, over the results of the two sets and over the data
   sources, files and options *)

MaxResults == 2

\* The results a measurement gives: probe 7 answers, probe 10 answers or
\* sends a malformed result
ResultsOf(msm) ==
    { OkResult(7, msm, 30, 100, Abuf(FALSE, <<TextAnswer(ams)>>)),
      OkResult(10, msm, 60, 200, Abuf(FALSE, <<TextAnswer(fra)>>)),
      MalformedResult(10, msm) }

RepliesOf(msm) ==
    {Success(rs) : rs \in ListsUpTo(ResultsOf(msm), MaxResults)} \cup {Failure}

Unreadable == [readable |-> FALSE, writes |-> 0, dict |-> <<>>]

\* Runs on two measurements, over what the API gives for each
InitResults ==
    \E reply0 \in RepliesOf(12016241), reply1 \in RepliesOf(12016242),
       summary \in BOOLEAN, excluded \in {<<>>, <<Str(7)>>} :
       /\ args = [DefaultArgs EXCEPT
                    !.print_summary_stats = summary,
                    !.exclusion_list_file =
                        IF excluded = <<>> THEN NoneStr ELSE <<"e">>]
       /\ exclusion_file = [readable |-> TRUE, lines |-> excluded]
       /\ api = ApiOf(reply0, reply1, [id \in MsmIds |-> 4])
       /\ data_sources = <<MsmSource(12016241), MsmSource(12016242)>>
       /\ ppcf = AllCached

\* Runs over the data sources named, the files and the listing options
InitSources ==
    \E sources \in
          { <<>>,
            <<MsmSource(12016241)>>,
            <<MsmSource(12016241), MsmSource(12016242)>>,
            <<FileSource(<<>>)>>,
            <<FileSource(<<OkResult(10, 12016241, 30, 100,
                                    Abuf(FALSE, <<TextAnswer(ams)>>))>>),
              MsmSource(12016242)>>,
            <<OtherSource>>,
            <<FileSource(<<OkResult(12, 12016241, 30, 100,
                                    Abuf(FALSE, <<TextAnswer(ams)>>))>>)>>,
            <<NewlineSource(12016241), MsmSource(12016242)>>,
            <<MsmSource(1201624)>>,
            <<MsmSource(12016241), MsmSource(12016242),
              MsmSource(12016241)>> },
       exclusion \in { [file |-> NoneStr, readable |-> TRUE],
                       [file |-> <<"e">>, readable |-> TRUE],
                       [file |-> <<"e">>, readable |-> FALSE] },
       cache \in {AllCached, Unreadable},
       all \in BOOLEAN, quiet \in BOOLEAN, bare \in BOOLEAN :
       /\ args = [DefaultArgs EXCEPT
                    !.exclusion_list_file = exclusion.file,
                    !.all_probes = all,
                    !.do_not_list_probes = quiet,
                    !.no_header = bare]
       /\ exclusion_file = [readable |-> exclusion.readable,
                            lines |-> <<Str(12)>>]
       /\ api = ApiOf(Success(<<OkResult(10, 12016241, 30, 100,
                                         Abuf(FALSE, <<TextAnswer(ams)>>)),
                                OkResult(7, 12016241, 60, 200,
                                         Abuf(FALSE, <<TextAnswer(ams)>>))>>),
                      Success(<<OkResult(10, 12016242, 42, 150,
                                         Abuf(FALSE, <<TextAnswer(fra)>>))>>),
                      [id \in MsmIds |-> 4])
       /\ data_sources = sources
       /\ ppcf = cache

\* Runs over the columns of the report (--probe_properties_to_report)
InitColumns ==
    \E columns \in { <<"probe_id", "rt_a", "rt_b">>,
                     <<"probe_id", "rt_a", "bogus">>,
                     <<"bogus", "probe_id">>,
                     <<>> },
       bare \in BOOLEAN, quiet \in BOOLEAN, all \in BOOLEAN :
       /\ args = [DefaultArgs EXCEPT
                    !.probe_properties_to_report = columns,
                    !.all_probes = all,
                    !.do_not_list_probes = quiet,
                    !.no_header = bare]
       /\ exclusion_file = [readable |-> TRUE, lines |-> <<>>]
       /\ api = ApiOf(Success(<<OkResult(10, 12016241, 30, 100,
                                         Abuf(FALSE, <<TextAnswer(ams)>>)),
                                OkResult(7, 12016241, 60, 200,
                                         Abuf(FALSE, <<TextAnswer(ams)>>))>>),
                      Success(<<OkResult(10, 12016242, 42, 150,
                                         Abuf(FALSE, <<TextAnswer(fra)>>))>>),
                      [id \in MsmIds |-> 4])
       /\ data_sources = <<MsmSource(12016241), MsmSource(12016242)>>
       /\ ppcf = AllCached

\* Runs over the date-times supplied and the number of data sources
InitDateTimes ==
    \E d1 \in {NoneStr, Str(20200101), <<"n", "o", "w">>},
       d2 \in {NoneStr, Str(20200102), <<"n", "o", "w">>},
       sources \in
          { <<>>,
            <<MsmSource(12016241)>>,
            <<MsmSource(12016241), MsmSource(12016242)>>,
            <<FileSource(<<OkResult(10, 12016241, 30, 100,
                                    Abuf(FALSE, <<TextAnswer(ams)>>))>>)>> },
       summary \in BOOLEAN, slow_only \in BOOLEAN :
       /\ args = [DefaultArgs EXCEPT
                    !.datetime1 = d1,
                    !.datetime2 = d2,
                    !.list_slow_probes_only = slow_only,
                    !.print_summary_stats = summary]
       /\ exclusion_file = [readable |-> TRUE, lines |-> <<>>]
       /\ api = ApiOf(Success(<<OkResult(10, 12016241, 30, 100,
                                         Abuf(FALSE, <<TextAnswer(ams)>>)),
                                OkResult(7, 12016241, 60, 200,
                                         Abuf(FALSE, <<TextAnswer(ams)>>))>>),
                      Success(<<OkResult(10, 12016242, 42, 150,
                                         Abuf(FALSE, <<TextAnswer(fra)>>))>>),
                      [id \in MsmIds |-> 4])
       /\ data_sources = sources
       /\ ppcf = AllCached

Init ==
    /\ ScriptStart
    /\ InitResults \/ InitSources \/ InitColumns \/ InitDateTimes
    /\ ripe_probes = NoRipeProbes

Spec == Init /\ [][Next]_vars

-----------------------------------------------------------------------------
(* C3 *)

\* Both result sets are ingested and the run is past the reconciliation
Reconciled == results_set_id = 2 /\ pc \notin {"load", "reconcile"}

\* C3: when two result sets are ingested and no probe id is seen in both
\* (also when none is seen in either), the run ends with exit code 14 and
\* neither a header line nor a probe row is written.
C3_NoCommonProbesEndsRun ==
    (Reconciled /\ m_seen_probe_ids_set[0] \cap m_seen_probe_ids_set[1] = {})
        => /\ pc = "exit"
           /\ exit_code = 14
           /\ header_out = <<>>
           /\ rows_out = <<>>

\* Two runs the claim speaks of have ended: this one saw no probe in either
\* result set
C3_Witness ==
    /\ Reconciled
    /\ m_seen_probe_ids_set[0] = {}
    /\ m_seen_probe_ids_set[1] = {}
    /\ InputOf(0) = <<>>
    /\ pc = "exit"
    /\ exit_code = 14

\* and this one saw probes in both result sets, none in both
DisjointNonEmptyReached ==
    /\ Reconciled
    /\ m_seen_probe_ids_set[0] # {}
    /\ m_seen_probe_ids_set[1] # {}
    /\ m_seen_probe_ids_set[0] \cap m_seen_probe_ids_set[1] = {}
    /\ exit_code = 14

-----------------------------------------------------------------------------
(* SpecRow: reports of two result sets.  Probe 10 answers both measurements,
   in 30 ms and in 42 ms; what probe 7 sends to each varies, and so do the
   options of the report. *)

\* 50 is the default of slow_threshold
ResponseTimes == {0, 30, 42, 50, 60}

LatencyDiffThresholds == {0, 5, 20}

\* The answer buffers of a result: the usual answer, and answers that give
\* the substrings fra, no_data, no_reply, unknown, Unknown and a:b
AnswerShapes ==
    { Abuf(FALSE, <<TextAnswer(fra)>>),
      NoAbuf,
      Abuf(FALSE, <<>>),
      Abuf(FALSE, <<TextAnswer(<<"unknown">>)>>),
      Abuf(FALSE, <<TextAnswer(<<"Unknown">>)>>),
      Abuf(FALSE, <<TextAnswer(<<"a", ":", "b">>)>>) }

\* What probe 7 sends to a measurement: nothing, a malformed result, or a
\* result
Probe7Results(msm) ==
    { <<>>, <<MalformedResult(7, msm)>> }
    \cup { <<OkResult(7, msm, rt, 100, Abuf(FALSE, <<TextAnswer(ams)>>))>> :
              rt \in ResponseTimes }
    \cup { <<OkResult(7, msm, 30, 100, abuf)>> : abuf \in AnswerShapes }

InitRow ==
    /\ ScriptStart
    /\ \E r7a \in Probe7Results(12016241), r7b \in Probe7Results(12016242),
          no_color \in BOOLEAN, emphasis_chars \in BOOLEAN,
          slow_only \in BOOLEAN,
          latency_diff_threshold \in LatencyDiffThresholds :
          /\ args = [DefaultArgs EXCEPT
                       !.all_probes = TRUE,
                       !.no_color = no_color,
                       !.emphasis_chars = emphasis_chars,
                       !.list_slow_probes_only = slow_only,
                       !.latency_diff_threshold = latency_diff_threshold]
          /\ api = ApiOf(
                Success(<<OkResult(10, 12016241, 30, 100,
                                   Abuf(FALSE, <<TextAnswer(ams)>>))>> \o r7a),
                Success(r7b \o <<OkResult(10, 12016242, 42, 150,
                                          Abuf(FALSE, <<TextAnswer(ams)>>))>>),
                [id \in MsmIds |-> 4])
    /\ exclusion_file = [readable |-> TRUE, lines |-> <<>>]
    /\ data_sources = <<MsmSource(12016241), MsmSource(12016242)>>
    /\ ppcf = AllCached
    /\ ripe_probes = NoRipeProbes

SpecRow == InitRow /\ [][Next]_vars

\* The rows written
Rows == Range(rows_out)

\* The response time the report has for (set, probe): that of the last
\* result of the probe in the set that is not excluded, malformed or an
\* error, and -1 when there is none
ResponseTimeOf(sid, probe_id) ==
    LET mine == Kept(InputOf(sid),
                     LAMBDA r : /\ Str(r.probe_id) = probe_id
                                /\ ~IsExcluded(r) /\ IsWellFormed(r))
    IN  IF mine = <<>> THEN -1
        ELSE mine[Len(mine)].responses[1].response_time

\* A highlight as it is written: nothing when colour is disabled
Written(fmt_chars) == IF args.no_color THEN fmt_empty ELSE fmt_chars

\* C4: every row written shows the response times of the probe in the two
\* sets, -1 for a set that has none, and an rt_diff that is rt_b - rt_a
\* when both are positive and 0 otherwise.
C4_RtDiffOnlyWhenBothPositive ==
    \A row \in Rows :
        LET rt_a == ResponseTimeOf(0, row.f_probe_id)
            rt_b == ResponseTimeOf(1, row.f_probe_id)
        IN  /\ row.f_rt_a = rt_a
            /\ row.f_rt_b = rt_b
            /\ (rt_a > 0 /\ rt_b > 0) => row.f_rt_diff = rt_b - rt_a
            /\ ~(rt_a > 0 /\ rt_b > 0) => row.f_rt_diff = 0

\* A probe seen in set 0 only is listed: rt_b is -1 and rt_diff is 0
C4_Witness ==
    \E row \in Rows :
        /\ row.f_probe_id = Str(7)
        /\ \A i \in 1..Len(InputOf(1)) : InputOf(1)[i].probe_id # 7
        /\ row.f_rt_a = 60
        /\ row.f_rt_b = -1
        /\ row.f_rt_diff = 0

\* C5: the highlight and the emphasis character of the diff of a row follow
\* from rt_diff and the latency threshold: above the threshold bold red
\* (latency increased), with '*' when emphasis characters are enabled; below
\* minus the threshold bold green; 0 magenta (a tie); else none.  (With
\* colour disabled every highlight is written as the empty string.)
C5_DiffHighlightByThreshold ==
    \A row \in Rows :
        LET rt_diff == row.f_rt_diff
            threshold == args.latency_diff_threshold
        IN  /\ rt_diff > threshold =>
                 /\ row.f_rt_diff_fmt_chars = Written(fmt_bold \o fmt_bright_red)
                 /\ row.f_rt_emph_char =
                        IF args.emphasis_chars THEN "*" ELSE " "
            /\ rt_diff < -threshold =>
                 /\ row.f_rt_diff_fmt_chars = Written(fmt_bold \o fmt_bright_green)
                 /\ row.f_rt_emph_char = " "
            /\ rt_diff = 0 /\ ~(rt_diff > threshold) /\ ~(rt_diff < -threshold) =>
                 /\ row.f_rt_diff_fmt_chars = Written(fmt_bright_magenta)
                 /\ row.f_rt_emph_char = " "
            /\ rt_diff # 0 /\ ~(rt_diff > threshold) /\ ~(rt_diff < -threshold) =>
                 /\ row.f_rt_diff_fmt_chars = Written(fmt_clear)
                 /\ row.f_rt_emph_char = " "

\* 30 ms and 42 ms with a threshold of 5: a diff of 12, bold red, with '*'
C5_Witness ==
    /\ args.latency_diff_threshold = 5
    /\ args.emphasis_chars
    /\ ~args.no_color
    /\ \E row \in Rows :
          /\ row.f_rt_a = 30
          /\ row.f_rt_b = 42
          /\ row.f_rt_diff = 12
          /\ row.f_rt_diff_fmt_chars = fmt_bold \o fmt_bright_red
          /\ row.f_rt_emph_char = "*"

\* The DNS answer substring the report has for (set, probe)
SubstringOf(sid, probe_id) ==
    pm_dns_server_substring[ResultsAndProbesId(sid, probe_id)]

NoHighlight == {fmt_clear, fmt_empty}

\* What a row shows of two unequal substrings: "A:B" with the difference
\* highlight, and '!' when emphasis characters are enabled
ShowsDifference(row, dns_a, dns_b) ==
    /\ row.f_dns_response = dns_a \o <<":">> \o dns_b
    /\ row.f_sites_fmt_chars = Written(fmt_bold \o fmt_bright_red)
    /\ row.f_sites_emph_char = IF args.emphasis_chars THEN "!" ELSE " "

\* C6 as claimed: equal substrings are shown once with no highlight, whatever
\* the string; unequal ones as "A:B" with the difference highlight and a
\* trailing '!' when emphasis characters are enabled.
C6_EqualNeverHighlighted ==
    \A row \in Rows :
        LET dns_a == SubstringOf(0, row.f_probe_id)
            dns_b == SubstringOf(1, row.f_probe_id)
        IN  IF dns_a = dns_b
            THEN /\ row.f_dns_response = dns_a
                 /\ row.f_sites_fmt_chars \in NoHighlight
                 /\ row.f_sites_emph_char = " "
            ELSE ShowsDifference(row, dns_a, dns_b)

\* C6: equal substrings are shown once; with colour enabled a string that
\* begins with "unknown" is magenta and one that begins with "no_reply" is
\* yellow (in any case of the letters, unless the string holds a ':'), any
\* other string has no highlight.  Unequal substrings are shown as "A:B"
\* with the difference highlight, and '!' when emphasis is enabled.
C6_EqualHighlightedWhenSentinel ==
    \A row \in Rows :
        LET dns_a == SubstringOf(0, row.f_probe_id)
            dns_b == SubstringOf(1, row.f_probe_id)
            sentinel(word) == /\ dns_a # <<>>
                              /\ dns_a[1] \in word
                              /\ ":" \notin Range(dns_a)
        IN  IF dns_a = dns_b
            THEN /\ row.f_dns_response = dns_a
                 /\ row.f_sites_emph_char = " "
                 /\ row.f_sites_fmt_chars =
                       IF sentinel({"unknown", "Unknown"})
                       THEN Written(fmt_bright_magenta)
                       ELSE IF sentinel({"no_reply"})
                       THEN Written(fmt_bright_yellow)
                       ELSE Written(fmt_clear)
            ELSE ShowsDifference(row, dns_a, dns_b)

\* Probe 7 is in set 0 only with a malformed result and not in set 1: both
\* substrings are "unknown", shown once, in magenta
C6_Witness ==
    /\ ~args.no_color
    /\ \E row \in Rows :
          /\ row.f_probe_id = Str(7)
          /\ SubstringOf(0, Str(7)) = unknown
          /\ SubstringOf(1, Str(7)) = unknown
          /\ row.f_dns_response = unknown
          /\ row.f_sites_fmt_chars = fmt_bright_magenta

-----------------------------------------------------------------------------
(* SpecProps: reports over what the probe properties cache file holds and
   what the RIPE Atlas API knows of each probe *)

\* The entry the cache file has for a probe, and what Probe(id=p) gives
CachedEntry ==
    [f \in ProbeFields |-> IF f = "asn_v6" THEN None ELSE f]
RipeEntry ==
    [ok |-> TRUE,
     info |-> [asn_v4 |-> "3333", asn_v6 |-> None, country_code |-> "NL",
               address_v4 |-> "193.0.0.1", address_v6 |-> None,
               status |-> "Connected"]]

\* A probe that no result names, with an entry in the cache file
OtherProbe == 99

ResultsOfAll(msm) ==
    <<OkResult(7, msm, 30, 100, Abuf(FALSE, <<TextAnswer(ams)>>)),
      OkResult(10, msm, 42, 150, Abuf(FALSE, <<TextAnswer(ams)>>)),
      OkResult(12, msm, 60, 200, Abuf(FALSE, <<TextAnswer(fra)>>))>>

InitProps ==
    /\ ScriptStart
    /\ \E cached \in SUBSET {Str(q) : q \in Probes \cup {OtherProbe}},
          known \in SUBSET {Str(q) : q \in Probes},
          readable \in BOOLEAN, quiet \in BOOLEAN, protocol \in {4, 6} :
          /\ ppcf = [readable |-> readable, writes |-> 0,
                     dict |-> [p \in cached |-> CachedEntry]]
          /\ ripe_probes = [p \in {Str(q) : q \in Probes} |->
                               IF p \in known THEN RipeEntry ELSE [ok |-> FALSE]]
          /\ args = [DefaultArgs EXCEPT !.do_not_list_probes = quiet]
          /\ api = ApiOf(Success(ResultsOfAll(12016241)),
                         Success(ResultsOfAll(12016242)),
                         [id \in MsmIds |-> protocol])
    /\ exclusion_file = [readable |-> TRUE, lines |-> <<>>]
    /\ data_sources = <<MsmSource(12016241), MsmSource(12016242)>>

SpecProps == InitProps /\ [][Next]_vars

\* load_probe_properties is called in this step and the cache file is read
LoadsProbeProperties ==
    pc = "report" /\ ~args.do_not_list_probes /\ ppcf.readable

\* The probe ids it is called with
RequestedProbes ==
    Range(IF args.all_probes THEN uniq_seen_probe_ids ELSE common_probe_ids)

\* C7: a requested probe that is neither in the cache file as loaded nor
\* known to the API gets a record with asn_v4, asn_v6, country_code,
\* address_v4 and address_v6, each the placeholder "-" (not None), and the
\* run goes on to its end.
C7_PlaceholderForUnknownProbe ==
    [][ LoadsProbeProperties =>
          /\ pc' = "done"
          /\ \A p \in RequestedProbes :
                (p \notin DOMAIN ppcf.dict /\ ~ripe_probes[p].ok) =>
                   /\ p \in DOMAIN p_probe_properties'
                   /\ ProbeFields \subseteq DOMAIN p_probe_properties'[p]
                   /\ \A f \in ProbeFields : p_probe_properties'[p][f] = "-"
      ]_vars

\* Probe 7 is in neither and has the placeholder record; the run has ended
\* without a failure
C7_Witness ==
    /\ pc = "done"
    /\ Str(7) \in DOMAIN p_probe_properties
    /\ Str(7) \notin DOMAIN ppcf.dict
    /\ ~ripe_probes[Str(7)].ok
    /\ \A f \in ProbeFields : p_probe_properties[Str(7)][f] = "-"

\* C8: after load_probe_properties the cache file holds every entry it held
\* when loaded, unchanged, and the entries of the requested probes it did
\* not hold and the API knows, and no other; it is written once, also when
\* it held every requested probe.
C8_CacheWrittenBackMerged ==
    [][ LoadsProbeProperties =>
          LET fetched == {p \in RequestedProbes :
                             p \notin DOMAIN ppcf.dict /\ ripe_probes[p].ok}
          IN  /\ ppcf'.readable
              /\ ppcf'.writes = ppcf.writes + 1
              /\ DOMAIN ppcf'.dict = DOMAIN ppcf.dict \cup fetched
              /\ \A p \in DOMAIN ppcf.dict : ppcf'.dict[p] = ppcf.dict[p]
              /\ \A p \in fetched :
                    ppcf'.dict[p] =
                        [f \in ProbeFields |-> ripe_probes[p].info[f]]
      ]_vars

\* The cache file held probe 10 and the probe no result names; probe 7 was
\* fetched and probe 12 is unknown: the file written holds the three
C8_Witness ==
    /\ pc = "done"
    /\ ppcf.writes = 1
    /\ DOMAIN ppcf.dict = {Str(7), Str(10), Str(OtherProbe)}
    /\ ppcf.dict[Str(10)] = CachedEntry
    /\ ppcf.dict[Str(OtherProbe)] = CachedEntry
    /\ ppcf.dict[Str(7)] = [f \in ProbeFields |-> RipeEntry.info[f]]
    /\ p_probe_properties[Str(12)]["asn_v4"] = "-"

\* The cache file held every requested probe and is written all the same
CacheWrittenWithoutMisses ==
    /\ pc = "done"
    /\ ppcf.writes = 1
    /\ DOMAIN ppcf.dict = {Str(q) : q \in Probes}
    /\ \A p \in DOMAIN ppcf.dict : ppcf.dict[p] = CachedEntry

-----------------------------------------------------------------------------
(* C11 *)

\* The date-time strings of the command line that are supplied
SuppliedDateTimes ==
    {i \in {1, 2} :
        Supplied(IF i = 1 THEN args.datetime1 ELSE args.datetime2)}

\* Nothing is asked from the API and no result set is ingested
NothingIngested ==
    /\ api_requests = <<>>
    /\ results_set_id = 0
    /\ measurement_ids = <<>>
    /\ DOMAIN m_total_responses = {}
    /\ DOMAIN pm_response_time = {}

\* C11: a supplied date-time is normalised to a unix time v with
\* oldest_result_unixtime <= v < current_unixtime (the string of the oldest
\* time gives it, the string of the current time is rejected), or the run
\* ends with exit code 2 before any data source is ingested.
C11_ValidUnixtimeOrExit2 ==
    /\ (pc = "exit" /\ exit_code = 2) => NothingIngested
    /\ (pc # "validate" /\ ~(pc = "exit" /\ exit_code = 2)) =>
          \A i \in SuppliedDateTimes :
             /\ unixtimes[i] >= oldest_result_unixtime
             /\ unixtimes[i] < current_unixtime
    /\ (pc # "validate" /\ args.datetime1 = Str(20100101)) =>
          unixtimes[1] = oldest_result_unixtime
    /\ (pc # "validate" /\ NowString \in {args.datetime1, args.datetime2}) =>
          pc = "exit" /\ exit_code = 2
    /\ (pc # "validate" /\ 1 \in SuppliedDateTimes /\ unixtimes[1] # 0) =>
          /\ unixtimes[1] >= oldest_result_unixtime
          /\ unixtimes[1] < current_unixtime

\* The string of the oldest time is accepted and the run goes on
C11_Witness ==
    /\ args.datetime1 = Str(20100101)
    /\ unixtimes[1] = oldest_result_unixtime
    /\ pc = "done"

\* The string of the current time ends the run with exit code 2
NowStringRejected ==
    /\ args.datetime1 = NowString
    /\ pc = "exit"
    /\ exit_code = 2

-----------------------------------------------------------------------------
(* C12 *)

\* A column of the configured list is none of the reportable properties
UnknownColumnConfigured ==
    \E i \in 1..Len(args.probe_properties_to_report) :
        args.probe_properties_to_report[i]
            \notin Range(reportable_probe_properties)

\* The run is over
RunEnded == pc \in {"done", "exit"}

\* C12: with a column configured that is none of probe_id, asn,
\* country_code, ip_address, rt_a, rt_b, rt_diff and dns_response, a run
\* that comes to list the probes ends with a failure and writes neither a
\* header nor a probe row.
C12_UnknownColumnIsFatal ==
    (UnknownColumnConfigured /\ ~args.do_not_list_probes /\ RunEnded) =>
        /\ pc = "exit"
        /\ exit_code # 0
        /\ header_out = <<>>
        /\ rows_out = <<>>

\* The run with the columns probe_id, rt_a, bogus ends without a failure,
\* with the header of two columns written and no row
UnknownColumnOnlyLogged ==
    /\ args.probe_properties_to_report = <<"probe_id", "rt_a", "bogus">>
    /\ pc = "done"
    /\ exit_code = 0
    /\ Len(header_out) = 1
    /\ Len(header_out[1].words) = 2
    /\ rows_out = <<>>

-----------------------------------------------------------------------------
(* C13 *)

\* A supplied date-time is one that user_datetime_to_valid_unixtime rejects
InvalidDateTimeGiven ==
    \/ Supplied(args.datetime1)
       /\ user_datetime_to_valid_unixtime(args.datetime1).exit # 0
    \/ Supplied(args.datetime2)
       /\ user_datetime_to_valid_unixtime(args.datetime2).exit # 0

\* The run ended while it was loading the result set results_set_id: the
\* date-times were valid and the data sources one or two (two, once counted)
EndedLoading ==
    /\ pc = "exit"
    /\ ~InvalidDateTimeGiven
    /\ Len(data_sources) = 2
    /\ results_set_id < 2

\* The fatal conditions a run can end in
EndedInvalidDateTime == pc = "exit" /\ InvalidDateTimeGiven
EndedNoDataSources ==
    pc = "exit" /\ ~InvalidDateTimeGiven /\ Len(data_sources) = 0
EndedTooManyDataSources ==
    pc = "exit" /\ ~InvalidDateTimeGiven /\ Len(data_sources) > 2
EndedRemoteRequestFailed ==
    /\ EndedLoading
    /\ ~data_sources[results_set_id + 1].readable
    /\ LooksLikeMeasurementId(data_sources[results_set_id + 1].name)
    /\ ~api.replies[results_set_id].is_success
EndedNotADataSource ==
    /\ EndedLoading
    /\ ~data_sources[results_set_id + 1].readable
    /\ ~LooksLikeMeasurementId(data_sources[results_set_id + 1].name)
EndedExclusionListUnreadable ==
    /\ EndedLoading
    /\ ~EndedRemoteRequestFailed
    /\ ~EndedNotADataSource
    /\ args.exclusion_list_file # NoneStr
    /\ ~exclusion_file.readable
EndedNoCommonProbes ==
    /\ pc = "exit"
    /\ results_set_id = 2
    /\ m_seen_probe_ids_set[0] \cap m_seen_probe_ids_set[1] = {}
EndedCacheUnreadable ==
    /\ pc = "exit"
    /\ results_set_id = 2
    /\ m_seen_probe_ids_set[0] \cap m_seen_probe_ids_set[1] # {}
    /\ ~args.do_not_list_probes
    /\ ~ppcf.readable

\* The fatal conditions of the claim the run ended in
FatalConditions ==
    {c \in DOMAIN ExitCodes :
        CASE c = "InvalidDateTime"    -> EndedInvalidDateTime
          [] c = "NoDataSources"      -> EndedNoDataSources
          [] c = "TooManyDataSources" -> EndedTooManyDataSources
          [] c = "RemoteRequestFailed" -> EndedRemoteRequestFailed
          [] c = "CacheUnreadable"    -> EndedCacheUnreadable
          [] c = "NoCommonProbes"     -> EndedNoCommonProbes}

\* C13 as claimed: a run that ends in a fatal condition ends with the exit
\* code of that condition, which is the exit code of no other fatal
\* condition.
C13_ExitCodeOfNoOtherCondition ==
    \A c \in FatalConditions :
        /\ exit_code = ExitCodes[c]
        /\ \A d \in DOMAIN ExitCodes \ {c} : ExitCodes[d] # exit_code

\* C13: the exit code of a run that ended tells the fatal condition, but for
\* two pairs: 2 an invalid date-time; 3 no data source or more than two; 11 a
\* failed request to the API; 13 an unreadable probe properties cache file
\* or an unreadable exclusion list; 14 no common probes.
C13_ExitCodeTellsCondition ==
    pc = "exit" =>
        /\ exit_code = 2  <=> EndedInvalidDateTime
        /\ exit_code = 3  <=> (EndedNoDataSources \/ EndedTooManyDataSources)
        /\ exit_code = 11 <=> EndedRemoteRequestFailed
        /\ exit_code = 13 <=> (EndedCacheUnreadable
                               \/ EndedExclusionListUnreadable)
        /\ exit_code = 14 <=> EndedNoCommonProbes
        /\ \A c \in FatalConditions : exit_code = ExitCodes[c]

\* Three data sources were named: the run ended with the exit code of no
\* data source
C13_Witness ==
    /\ EndedTooManyDataSources
    /\ exit_code = 3
    /\ exit_code = ExitCodes["NoDataSources"]

-----------------------------------------------------------------------------
(* C14 *)

\* The run ended in a fatal condition: one of those the script exits for
EndedFatal == pc = "exit" /\ exit_code \in {2, 3, 11, 12, 13, 14}

\* C14 as claimed: when the run ends in a fatal condition nothing of the
\* report has been written, no summary statistics, no header and no row.
C14_NoOutputBeforeFatalEnd ==
    EndedFatal =>
        /\ summary_out = <<>>
        /\ header_out = <<>>
        /\ rows_out = <<>>

\* C14: when the run ends in a fatal condition no header and no row has
\* been written; with summary statistics enabled, the summary block of
\* every result set ingested before the failure has been written, and no
\* other (none when the run ends before it ingests a set).
C14_OnlySummariesBeforeFatalEnd ==
    EndedFatal =>
        /\ header_out = <<>>
        /\ rows_out = <<>>
        /\ Len(summary_out) =
              IF args.print_summary_stats THEN results_set_id ELSE 0
        /\ exit_code \in {2, 3} => summary_out = <<>>
        /\ exit_code = 14 /\ args.print_summary_stats => Len(summary_out) = 2

\* The request for the second set failed after the summary statistics of
\* the first were written
C14_Witness ==
    /\ pc = "exit"
    /\ exit_code = 11
    /\ args.print_summary_stats
    /\ results_set_id = 1
    /\ Len(summary_out) = 1
    /\ header_out = <<>>
    /\ rows_out = <<>>

-----------------------------------------------------------------------------
(* C15, C16 *)

\* The probe ids seen in a result set, from the results read
SeenIn(sid) ==
    {Str(InputOf(sid)[i].probe_id) : i \in
        {k \in 1..Len(InputOf(sid)) : ~IsExcluded(InputOf(sid)[k])}}

\* The probes of the report, in the order of the rows
ProbesToList ==
    SortStrs(ListOfSet(IF args.all_probes THEN SeenIn(0) \cup SeenIn(1)
                       ELSE SeenIn(0) \cap SeenIn(1)))

\* The DNS answer substring of (set, probe): that of the last result of the
\* probe that is not excluded, malformed or an error; unknown without one
AnswerOf(sid, probe_id) ==
    LET mine == Kept(InputOf(sid),
                     LAMBDA r : /\ Str(r.probe_id) = probe_id
                                /\ ~IsExcluded(r) /\ IsWellFormed(r))
    IN  IF mine = <<>> THEN unknown
        ELSE DnsServerSubstring(mine[Len(mine)]).v

\* A probe is slow in one of the sets
IsSlow(probe_id) ==
    \/ ResponseTimeOf(0, probe_id) > args.slow_threshold
    \/ ResponseTimeOf(1, probe_id) > args.slow_threshold

\* The text of a row: its fields but the highlight codes
TextOf(row) ==
    [ probe_id     |-> row.f_probe_id,
      asn          |-> row.f_asn,
      country_code |-> row.f_country_code,
      ip_address   |-> row.f_ip_address,
      rt_a         |-> row.f_rt_a,
      rt_b         |-> row.f_rt_b,
      rt_diff      |-> row.f_rt_diff,
      dns_response |-> row.f_dns_response,
      rt_emph_char |-> row.f_rt_emph_char,
      sites_emph_char |-> row.f_sites_emph_char ]

\* The text of the row of a probe, from the results read, the cache file
\* and the options other than no_color
TextFor(probe_id) ==
    LET rt_a == ResponseTimeOf(0, probe_id)
        rt_b == ResponseTimeOf(1, probe_id)
        rt_diff == IF rt_a > 0 /\ rt_b > 0 THEN rt_b - rt_a ELSE 0
        dns_a == AnswerOf(0, probe_id)
        dns_b == AnswerOf(1, probe_id)
        v6 == \A id \in MsmIds : api.protocol[id] = 6
        cached == ppcf.dict[probe_id]
    IN  [ probe_id     |-> probe_id,
          asn          |-> NoneToDash(cached[IF v6 THEN "asn_v6" ELSE "asn_v4"]),
          country_code |-> NoneToDash(cached["country_code"]),
          ip_address   |->
              NoneToDash(cached[IF v6 THEN "address_v6" ELSE "address_v4"]),
          rt_a         |-> rt_a,
          rt_b         |-> rt_b,
          rt_diff      |-> rt_diff,
          dns_response |->
              IF dns_a = dns_b THEN dns_a ELSE dns_a \o <<":">> \o dns_b,
          rt_emph_char |->
              IF rt_diff > args.latency_diff_threshold /\ args.emphasis_chars
              THEN "*" ELSE " ",
          sites_emph_char |->
              IF dns_a # dns_b /\ args.emphasis_chars THEN "!" ELSE " " ]

\* The highlight codes of a row
CodesOf(row) ==
    { row.f_rt_a_fmt_chars, row.f_rt_b_fmt_chars, row.f_rt_diff_fmt_chars,
      row.f_sites_fmt_chars, row.f_fmt_clear }

\* C15: the rows written and the text of each follow from the results, the
\* probe properties and the options other than the colour mode, so two runs
\* that differ in the colour mode only write the same probes in the same
\* order with the same text; with colour disabled every highlight code of a
\* row, the clear code too, is the empty string.
C15_TextIndependentOfColour ==
    pc = "done" =>
        LET listed == SelectSeq(ProbesToList,
                                LAMBDA p : ~args.list_slow_probes_only
                                           \/ IsSlow(p))
        IN  /\ Len(rows_out) = Len(listed)
            /\ \A i \in 1..Len(listed) :
                  TextOf(rows_out[i]) = TextFor(listed[i])
            /\ args.no_color =>
                  \A row \in Rows : CodesOf(row) = {fmt_empty}

\* With colour disabled the rows of probes 10 and 7 are written, a diff
\* above the threshold and two different answers among them, with no code
C15_Witness ==
    /\ pc = "done"
    /\ args.no_color
    /\ Len(rows_out) = 2
    /\ \E row \in Rows : /\ row.f_rt_diff > args.latency_diff_threshold
                         /\ ":" \in Range(row.f_dns_response)
                         /\ CodesOf(row) = {fmt_empty}

\* C16: the row of a probe of the report is written if and only if
\* list_slow_probes_only is off, or it is on and rt_a or rt_b is greater
\* than slow_threshold.
C16_RowIffNotSlowOnlyOrSlow ==
    pc = "done" =>
        /\ \A p \in Range(ProbesToList) :
              (\E row \in Rows : row.f_probe_id = p)
                  <=> (~args.list_slow_probes_only \/ IsSlow(p))
        /\ \A row \in Rows : row.f_probe_id \in Range(ProbesToList)
        /\ \A i, j \in 1..Len(rows_out) :
              rows_out[i].f_probe_id = rows_out[j].f_probe_id => i = j

\* In slow-only mode probe 7, 60 ms in set 0, has a row and probe 10 has
\* none
C16_Witness ==
    /\ pc = "done"
    /\ args.list_slow_probes_only
    /\ ResponseTimeOf(0, Str(7)) = 60
    /\ ~IsSlow(Str(10))
    /\ \E row \in Rows : row.f_probe_id = Str(7)
    /\ \A row \in Rows : row.f_probe_id # Str(10)

\* In slow-only mode probe 7, 50 ms in both sets, has no row
SlowThresholdNotSlow ==
    /\ pc = "done"
    /\ args.list_slow_probes_only
    /\ ResponseTimeOf(0, Str(7)) = args.slow_threshold
    /\ ResponseTimeOf(1, Str(7)) = args.slow_threshold
    /\ rows_out = <<>>

-----------------------------------------------------------------------------
(* C17 *)

\* The source is exactly eight digits
EightDigits(name) == Len(name) = 8 /\ \A i \in 1..8 : IsDigit(name[i])

\* The source is eight digits, or eight digits and a newline
EightDigitsAndNewline(name) ==
    \/ EightDigits(name)
    \/ Len(name) = 9 /\ EightDigits(SubSeq(name, 1, 8)) /\ name[9] = "\n"

\* What a call of process_request does, for a test IsId of the source's
\* name: a readable file is read and the API not asked; else a source that
\* passes the test is asked from the API, for the latest results when
\* _unixtime is 0 and else for the window from _unixtime to _unixtime +
\* interval - 300, and a request that fails ends the run (exit code 11) with
\* nothing ingested; any other source ends the run (exit code 12) with
\* nothing ingested and nothing asked.
ResolvesSource(IsId(_)) ==
    LET sid == results_set_id
        _data_source == data_sources[sid + 1]
        _unixtime == unixtimes[sid + 1]
        msm_id == IntOf(SubSeq(_data_source.name, 1, 8))
    IN  IF _data_source.readable
        THEN api_requests' = api_requests
        ELSE IF IsId(_data_source.name)
        THEN /\ api_requests' = Append(api_requests,
                    IF _unixtime = 0
                    THEN [kind |-> "latest", msm_id |-> msm_id]
                    ELSE [kind |-> "results", msm_id |-> msm_id,
                          start |-> _unixtime,
                          stop |-> _unixtime + api.interval - 300])
             /\ ~api.replies[sid].is_success =>
                   /\ pc' = "exit"
                   /\ exit_code' = 11
                   /\ UNCHANGED <<m_vars, results_set_id>>
        ELSE /\ pc' = "exit"
             /\ exit_code' = 12
             /\ api_requests' = api_requests
             /\ UNCHANGED <<m_vars, results_set_id>>

NewlineSourceRequested ==
    /\ data_sources # <<>>
    /\ data_sources[1] = NewlineSource(12016241)
    /\ api_requests # <<>>
    /\ api_requests[1] = [kind |-> "latest", msm_id |-> 12016241]

\* A readable file was ingested without a request
FileReadWithoutRequest ==
    /\ data_sources # <<>>
    /\ data_sources[1].readable
    /\ results_set_id = 1
    /\ api_requests = <<>>

-----------------------------------------------------------------------------
(* C18 *)

\* The results of the source being loaded were obtained and none of them is
\* kept: the list is empty, or every record is of an excluded probe
NothingKept ==
    LET sid == results_set_id
        fetched == FetchResults(data_sources[sid + 1], sid, unixtimes[sid + 1])
        excl == ReadExclusionList
    IN  /\ fetched.exit = 0
        /\ excl.exit = 0
        /\ \A i \in 1..Len(fetched.results) :
              Str(fetched.results[i].probe_id) \in Range(excl.ids)

\* The set being loaded is left with zero counters and empty lists
EmptySetLeft ==
    LET sid == results_set_id IN
    /\ sid \in DOMAIN m_total_responses' /\ m_total_responses'[sid] = 0
    /\ sid \in DOMAIN m_total_malformeds' /\ m_total_malformeds'[sid] = 0
    /\ sid \in DOMAIN m_total_abuf_malformeds'
    /\ m_total_abuf_malformeds'[sid] = 0
    /\ sid \in DOMAIN m_total_errors' /\ m_total_errors'[sid] = 0
    /\ sid \in DOMAIN m_total_slow' /\ m_total_slow'[sid] = 0
    /\ sid \in DOMAIN m_response_times' /\ m_response_times'[sid] = <<>>
    /\ sid \in DOMAIN m_timestamps' /\ m_timestamps'[sid] = <<>>
    /\ sid \in DOMAIN m_seen_probe_ids' /\ m_seen_probe_ids'[sid] = <<>>

\* C18: when the result list of a source is empty, or all its records are
\* excluded, process_request completes and leaves the set with all counters
\* zero and empty response-time, timestamp and seen-probe-id lists, whether
\* the source is a local file or a measurement asked from the API.
C18_EmptySourceIsNoError ==
    [][pc = "load" /\ NothingKept => EmptySetLeft]_vars

\* The same of the sources asked from the API alone
EmptyRemoteSourceIsNoError ==
    [][pc = "load" /\ NothingKept /\ ~data_sources[results_set_id + 1].readable
          => EmptySetLeft]_vars

\* A measurement whose results are all of an excluded probe was loaded
EmptyRemoteSourceLoaded ==
    /\ pc = "load"
    /\ results_set_id = 1
    /\ ~data_sources[1].readable
    /\ api.replies[0].results # <<>>
    /\ m_total_responses[0] = 0
    /\ m_seen_probe_ids[0] = <<>>

-----------------------------------------------------------------------------
(* C19 *)

\* One data source was named and the two date-times were not both supplied
OneSourceNoPairOfDateTimes ==
    /\ Len(data_sources) = 1
    /\ ~(Supplied(args.datetime1) /\ Supplied(args.datetime2))

\* C19: when exactly one data source is supplied and no pair of date-times,
\* the last result-set id is 0 and the source is not named a second time as
\* set 1, so exactly one set is ingested; and when there is one set the
\* probes considered are its seen probe ids and the IP version reported is
\* its IP version.
C19_OneSourceOneSet ==
    [][/\ pc = "sources" /\ OneSourceNoPairOfDateTimes =>
             /\ last_results_set_id' = 0
             /\ data_sources' = data_sources
       /\ pc = "reconcile" /\ last_results_set_id = 0 /\ pc' = "report" =>
             /\ uniq_seen_probe_ids' = ListOfSet(m_seen_probe_ids_set[0])
             /\ common_probe_ids' = ListOfSet(m_seen_probe_ids_set[0])
             /\ report_ip_version' = m_ip_version[0]]_vars

\* The one source named was ingested as set 0 and again as set 1
OneSourceIngestedTwice ==
    /\ pc = "reconcile"
    /\ ~Supplied(args.datetime1)
    /\ ~Supplied(args.datetime2)
    /\ data_sources = <<MsmSource(12016241), MsmSource(12016241)>>
    /\ api_requests = <<[kind |-> "latest", msm_id |-> 12016241],
                        [kind |-> "latest", msm_id |-> 12016241]>>
    /\ DOMAIN m_total_responses = {0, 1}

\* Whatever was supplied, two sets are to be ingested
AlwaysTwoSets ==
    pc \in {"load", "reconcile", "report", "done"} => last_results_set_id = 1

-----------------------------------------------------------------------------
(* C20 *)

\* The labels by the priority stated: the two date-times when both were
\* supplied, else the two measurement ids, else the one measurement id and
\* an empty label
LabelsByPriority ==
    IF Supplied(args.datetime1) /\ Supplied(args.datetime2)
    THEN <<args.datetime1 \o ms, args.datetime2 \o ms>>
    ELSE IF Len(measurement_ids) = 2
    THEN <<Str(measurement_ids[1]) \o ms, Str(measurement_ids[2]) \o ms>>
    ELSE <<Str(measurement_ids[1]) \o ms, <<>> >>

\* The columns of the header written
HeaderColumns == SelectSeq(args.probe_properties_to_report, Reportable)

\* C20: in the header written, the label of the rt_a column and that of the
\* rt_b column are the two date-times supplied when two were supplied, else
\* the two measurement ids when two sets were ingested, else the one
\* measurement id and an empty label; no label comes of a date-time that was
\* not supplied.
C20_HeaderLabelPriority ==
    \A h \in 1..Len(header_out) : \A i \in 1..Len(HeaderColumns) :
        /\ HeaderColumns[i] = "rt_a" =>
              header_out[h].words[i] = LabelsByPriority[1]
        /\ HeaderColumns[i] = "rt_b" =>
              header_out[h].words[i] = LabelsByPriority[2]

\* The same of the runs where the first date-time was supplied, or the
\* second was not
HeaderLabelPriorityUnlessSecondAlone ==
    (Supplied(args.datetime1) \/ args.datetime2 = NoneStr) =>
        C20_HeaderLabelPriority

\* With --datetime2 alone the rt_a column is headed None(ms)
LabelOfDateTimeNotSupplied ==
    /\ pc = "done"
    /\ args.datetime1 = NoneStr
    /\ args.datetime2 = Str(20200102)
    /\ Len(header_out) = 1
    /\ \E i \in 1..Len(HeaderColumns) :
          /\ HeaderColumns[i] = "rt_a"
          /\ header_out[1].words[i] = <<"N", "o", "n", "e">> \o ms

\* The two date-times supplied head the two columns
LabelsOfTwoDateTimes ==
    /\ pc = "done"
    /\ Len(header_out) = 1
    /\ \E i \in 1..Len(HeaderColumns) :
          /\ HeaderColumns[i] = "rt_a"
          /\ header_out[1].words[i] = Str(20200101) \o ms

-----------------------------------------------------------------------------
(* C21 *)

\* The block printed for a set gives its count, the min/avg/max/stddev of its
\* response times and its totals of errors, malformed and slow responses
FullSummary(block) ==
    LET sid == block.result_set IN
    /\ block.total_responses = m_total_responses[sid]
    /\ block.details.shown
    /\ block.details.min = m_response_times[sid][1]
    /\ block.details.avg = fmean(m_response_times[sid])
    /\ block.details.max = m_response_times[sid][Len(m_response_times[sid])]
    /\ block.details.stddev = pvariance(m_response_times[sid])
    /\ block.details.errors = m_total_errors[sid]
    /\ block.details.malformeds = m_total_malformeds[sid]
    /\ block.details.slow = m_total_slow[sid]

\* C21: with summary statistics enabled, the summary printed for an ingested
\* set reports the count, the min/avg/max/stddev of the response times and
\* the totals of errors, malformed and slow responses, whether or not only
\* the slow probes are listed.
C21_SummaryReportsStatistics ==
    \A i \in 1..Len(summary_out) : FullSummary(summary_out[i])

\* The same of the runs that list only the slow probes
SummaryReportsStatisticsWhenSlowOnly ==
    args.list_slow_probes_only => C21_SummaryReportsStatistics

\* Without slow-only listing, a summary gives the count alone
SummaryOfCountAlone ==
    /\ args.print_summary_stats
    /\ ~args.list_slow_probes_only
    /\ Len(summary_out) = 2
    /\ summary_out[1] = [result_set |-> 0, measurement_id |-> 12016241,
                         total_responses |-> 2, details |-> [shown |-> FALSE]]

\* With slow-only listing, the summaries of the two sets give the statistics
FullSummariesWhenSlowOnly ==
    /\ args.list_slow_probes_only
    /\ Len(summary_out) = 2
    /\ summary_out[1].details.shown
    /\ summary_out[1].details.min = 30
    /\ summary_out[1].details.max = 60

-----------------------------------------------------------------------------
(* SpecSplit: the DNS answer substring, over the delimiter, the index and
   the answer of the result of probe 7 in set 0 *)

SplitChars == {".", "!", "-"}

ItemIndexes == {0, 1, 2, 3}

InitSplit ==
    /\ ScriptStart
    /\ \E split_char \in SplitChars, item \in ItemIndexes,
          abuf \in AnswerShapes \cup {Abuf(FALSE, <<OtherAnswer>>)} :
          /\ args = [DefaultArgs EXCEPT
                       !.all_probes = TRUE,
                       !.split_char = split_char,
                       !.dns_response_item_occurence_to_return = item]
          /\ api = ApiOf(
                Success(<<OkResult(7, 12016241, 30, 100, abuf),
                          MalformedResult(10, 12016241)>>),
                Success(<<OkResult(10, 12016242, 42, 150,
                                   Abuf(FALSE, <<TextAnswer(ams)>>))>>),
                [id \in MsmIds |-> 4])
    /\ exclusion_file = [readable |-> TRUE, lines |-> <<>>]
    /\ data_sources = <<MsmSource(12016241), MsmSource(12016242)>>
    /\ ppcf = AllCached
    /\ ripe_probes = NoRipeProbes

SpecSplit == InitSplit /\ [][Next]_vars

\* The substring of a result by the rule stated: no_data for an answer that
\* cannot be read, no_reply for no answer, the whole string for the
\* delimiter '!' or an index out of range, else the item at the index
SubstringByRule(r) ==
    LET abuf == r.responses[1].abuf IN
    IF ~abuf.present THEN no_data
    ELSE IF abuf.answers = <<>> THEN no_reply
    ELSE IF ~abuf.answers[1].has_data THEN no_data
    ELSE LET text == abuf.answers[1].data[1]
             items == Split(text, args.split_char)
             index == args.dns_response_item_occurence_to_return
         IN  IF args.split_char = "!" THEN text
             ELSE IF index < Len(items) THEN items[index + 1]
             ELSE text

\* The results of a set are ingested and the report is not yet made
IngestedNotReported(sid) ==
    pc \in {"load", "reconcile", "report"} /\ results_set_id > sid

\* C22: for every non-excluded result that is neither malformed nor an
\* error, ingestion stores under the key of (set, probe), where its response
\* time is, the item at the configured index of the first answer's data split
\* on the delimiter when the index is in range, the whole string when it is
\* out of range or the delimiter is '!', no_reply when there is no answer
\* and no_data when the answer cannot be read; the substring of no such
\* result is left unset.
C22_SubstringStored ==
    \A sid \in {0, 1} : IngestedNotReported(sid) =>
        \A i \in 1..Len(InputOf(sid)) :
            LET r == InputOf(sid)[i]
                key == ResultsAndProbesId(sid, Str(r.probe_id))
            IN  (~IsExcluded(r) /\ IsWellFormed(r)) =>
                   /\ key \in DOMAIN pm_response_time
                   /\ key \in DOMAIN pm_dns_server_substring
                   /\ pm_dns_server_substring[key] = SubstringByRule(r)

\* The same of the runs whose delimiter is not '!'
SubstringStoredUnlessNoSplit ==
    args.split_char # "!" => C22_SubstringStored

\* With the delimiter '!' the result of probe 7 has a response time and no
\* substring
SubstringLeftUnset ==
    /\ args.split_char = "!"
    /\ pc = "reconcile"
    /\ api.replies[0].results[1].responses[1].abuf
          = Abuf(FALSE, <<TextAnswer(fra)>>)
    /\ ResultsAndProbesId(0, Str(7)) \in DOMAIN pm_response_time
    /\ ResultsAndProbesId(0, Str(7)) \notin DOMAIN pm_dns_server_substring

\* An index out of range stores the whole string, one in range the item
WholeStringStored ==
    /\ args.split_char = "."
    /\ args.dns_response_item_occurence_to_return = 3
    /\ pc = "reconcile"
    /\ ResultsAndProbesId(0, Str(7)) \in DOMAIN pm_dns_server_substring
    /\ pm_dns_server_substring[ResultsAndProbesId(0, Str(7))] = fra

-----------------------------------------------------------------------------
(* C23 *)

\* The probe ids of the rows written, in the order of the rows
ListedIds == [i \in 1..Len(rows_out) |-> rows_out[i].f_probe_id]

\* The report was made and every probe iterated has its row: all the columns
\* are known and the slow probes are not singled out
EveryProbeListed ==
    /\ pc = "done"
    /\ ~args.do_not_list_probes
    /\ ~args.list_slow_probes_only
    /\ ~RowFormatFails

\* The probes iterated are those of the union of the two seen-probe-id sets
\* in all-probes mode and of their intersection otherwise, each once
ListsUnionOrIntersection ==
    LET expected ==
            IF args.all_probes
            THEN m_seen_probe_ids_set[0] \cup m_seen_probe_ids_set[1]
            ELSE m_seen_probe_ids_set[0] \cap m_seen_probe_ids_set[1]
    IN  /\ Range(ListedIds) = expected
        /\ Len(ListedIds) = Cardinality(expected)

\* C23: with two ingested sets that share a probe, the probes iterated for
\* rows are the union of the two seen-probe-id sets in all-probes mode and
\* their intersection otherwise, each probe id once, in ascending order of
\* the identifiers, which are Python strs.
C23_ProbesListedAscending ==
    EveryProbeListed =>
        /\ ListsUnionOrIntersection
        /\ \A i, j \in 1..Len(ListedIds) :
              i < j => StrLess(ListedIds[i], ListedIds[j])

\* The order is not that of the numbers the identifiers spell
ListedInNumberOrder ==
    EveryProbeListed =>
        \A i, j \in 1..Len(ListedIds) :
            i < j => IntOf(ListedIds[i]) < IntOf(ListedIds[j])

\* All the probes of the two sets are listed, probe 10 before probe 7
C23_Witness ==
    /\ EveryProbeListed
    /\ args.all_probes
    /\ ListedIds = <<Str(10), Str(7)>>

\* The probes common to the two sets are listed, fewer than all the probes
CommonProbesListed ==
    /\ EveryProbeListed
    /\ ~args.all_probes
    /\ ListedIds = <<Str(10)>>
    /\ m_seen_probe_ids_set[0] = {Str(7), Str(10)}

-----------------------------------------------------------------------------
(* SpecFamily: reports of two measurements, over the address family of each
   and over what the cache file holds for the probes 7 and 10 *)

\* The entries of the cache file: with the properties of both families,
\* with null for those of IPv6, with no key for them
FamilyEntries ==
    { [asn_v4 |-> "64500", asn_v6 |-> "64506", country_code |-> "NL",
       address_v4 |-> "192.0.2.1", address_v6 |-> "2001:db8::1"],
      [asn_v4 |-> "64500", asn_v6 |-> None, country_code |-> "NL",
       address_v4 |-> "192.0.2.1", address_v6 |-> None],
      [asn_v4 |-> "64500", country_code |-> "NL", address_v4 |-> "192.0.2.1"] }

InitFamily ==
    /\ ScriptStart
    /\ \E protocol \in [MsmIds -> {4, 6}],
          entry7 \in FamilyEntries, entry10 \in FamilyEntries :
          /\ api = ApiOf(Success(ResultsOfAll(12016241)),
                         Success(ResultsOfAll(12016242)),
                         protocol)
          /\ ppcf = [readable |-> TRUE, writes |-> 0,
                     dict |-> (Str(7) :> entry7) @@ (Str(10) :> entry10)
                              @@ (Str(12) :> CachedEntry)]
    /\ args = DefaultArgs
    /\ exclusion_file = [readable |-> TRUE, lines |-> <<>>]
    /\ data_sources = <<MsmSource(12016241), MsmSource(12016242)>>
    /\ ripe_probes = NoRipeProbes

SpecFamily == InitFamily /\ [][Next]_vars

\* The IP version to display by the rule stated
DisplayVersion ==
    IF m_ip_version[0] # m_ip_version[1] THEN 4 ELSE m_ip_version[0]

\* The property of a probe to show: the "no data" marker when it is absent
\* or null
Shown(entry, key) ==
    IF key \notin DOMAIN entry THEN "-"
    ELSE IF entry[key] = None THEN "-" ELSE entry[key]

\* C24: with two ingested sets, the IP version displayed is 4 when the
\* address families of the two sets differ, and the run goes on; it is the
\* shared family otherwise.  The address column is 15 wide for version 4 and
\* 39 wide for version 6, and the ASN and the address of each row are those
\* the probe has for the version displayed, or "-" when absent or null.
C24_DisplayFamily ==
    /\ (results_set_id = 2 /\ m_ip_version[0] # m_ip_version[1])
          => pc # "exit"
    /\ pc \in {"report", "done"} => report_ip_version = DisplayVersion
    /\ pc = "done" =>
          /\ Len(header_out) = 1
          /\ header_out[1].address_width
                = (IF DisplayVersion = 4 THEN 15 ELSE 39)
          /\ Len(rows_out) = 3
          /\ \A i \in 1..Len(rows_out) :
                LET entry == ppcf.dict[rows_out[i].f_probe_id]
                    v == IF DisplayVersion = 4 THEN "v4" ELSE "v6"
                IN  /\ rows_out[i].f_asn
                          = Shown(entry, IF v = "v4" THEN "asn_v4" ELSE "asn_v6")
                    /\ rows_out[i].f_ip_address
                          = Shown(entry, IF v = "v4" THEN "address_v4"
                                         ELSE "address_v6")

\* Two reports are made: of an IPv4 and an IPv6 measurement, with version 4
C24_Witness ==
    /\ pc = "done"
    /\ m_ip_version[0] = 6
    /\ m_ip_version[1] = 4
    /\ report_ip_version = 4
    /\ header_out[1].address_width = 15
    /\ \E i \in 1..Len(rows_out) :
          /\ rows_out[i].f_probe_id = Str(7)
          /\ rows_out[i].f_asn = "64500"

\* and of two IPv6 measurements, with the IPv6 properties of a probe, "-"
\* for the null ones of another and "-" for the absent ones of a third
BothFamiliesSix ==
    /\ pc = "done"
    /\ m_ip_version[0] = 6
    /\ m_ip_version[1] = 6
    /\ report_ip_version = 6
    /\ header_out[1].address_width = 39
    /\ "asn_v6" \notin DOMAIN ppcf.dict[Str(7)]
    /\ "asn_v6" \in DOMAIN ppcf.dict[Str(10)]
    /\ ppcf.dict[Str(10)].asn_v6 = "64506"
    /\ \E i, j, k \in 1..Len(rows_out) :
          /\ rows_out[i].f_probe_id = Str(7)
          /\ rows_out[i].f_ip_address = "-"
          /\ rows_out[j].f_probe_id = Str(10)
          /\ rows_out[j].f_ip_address = "2001:db8::1"
          /\ rows_out[k].f_probe_id = Str(12)
          /\ rows_out[k].f_asn = "-"

-----------------------------------------------------------------------------
(* C25 *)

\* In this step process_request returns for a set that has no response time
ReturnsWithoutSamples ==
    /\ pc = "load"
    /\ Len(measurement_ids') = Len(measurement_ids) + 1
    /\ results_set_id \in DOMAIN m_response_times'
    /\ m_response_times'[results_set_id] = <<>>

\* C25: with summary statistics enabled, when a set is ingested that has no
\* response-time sample, its summary is skipped: nothing is computed on the
\* empty list, no summary is printed for the set, and the run goes on to the
\* next set without a failure.
C25_EmptySetSummarySkipped ==
    [][(args.print_summary_stats /\ ReturnsWithoutSamples) =>
           /\ pc' # "exit"
           /\ summary_out' = summary_out
           /\ results_set_id' = results_set_id + 1]_vars

\* Without summary statistics a set without samples does not end the run
EmptySetIngestedWithoutSummary ==
    [][(~args.print_summary_stats /\ ReturnsWithoutSamples) =>
           /\ pc' # "exit"
           /\ results_set_id' = results_set_id + 1]_vars

\* The run ended with the exception of the mean of no sample, raised for the
\* second set after the summary of the first was printed
MeanOfNoSampleEndsRun ==
    /\ args.print_summary_stats
    /\ pc = "exit"
    /\ exit_code = 1
    /\ Len(summary_out) = 1
    /\ Len(measurement_ids) = 2
    /\ m_response_times[1] = <<>>
    /\ m_total_malformeds[1] = 1

-----------------------------------------------------------------------------
(* C26 *)

\* The results of a probe in a set that are not excluded, malformed or an
\* error, in the order they are read
RecordsOf(sid, probe_id) ==
    Kept(InputOf(sid), LAMBDA r : /\ Str(r.probe_id) = probe_id
                                  /\ ~IsExcluded(r) /\ IsWellFormed(r))

\* The metric of (set, probe) is the response time and the substring of the
\* result r
MetricIsOf(sid, probe_id, r) ==
    LET key == ResultsAndProbesId(sid, probe_id) IN
    /\ key \in DOMAIN pm_response_time
    /\ pm_response_time[key] = r.responses[1].response_time
    /\ key \in DOMAIN pm_dns_server_substring
    /\ pm_dns_server_substring[key] = DnsServerSubstring(r).v

\* C26 as claimed: once a set is ingested, and through the rendering, the
\* metric of a (set, probe) key is the one recorded by the first well-formed
\* result of the probe in the set; a later result does not overwrite it.
C26_FirstMetricKept ==
    \A sid \in {0, 1} : Ingested(sid) =>
        \A p \in Probes :
            RecordsOf(sid, Str(p)) # <<>> =>
                MetricIsOf(sid, Str(p), RecordsOf(sid, Str(p))[1])

\* C26: once a set is ingested, and through the rendering, the metric of a
\* (set, probe) key is the one recorded by the last well-formed result of the
\* probe in the set: a later result of the same ingestion overwrites it, and
\* no step after the ingestion changes it.
C26_LastMetricKept ==
    \A sid \in {0, 1} : Ingested(sid) =>
        \A p \in Probes :
            LET mine == RecordsOf(sid, Str(p)) IN
            mine # <<>> => MetricIsOf(sid, Str(p), mine[Len(mine)])

\* The report is made of a set where probe 10 answered twice, in 60 ms from
\* ams and then in 30 ms from fra: its metric is 30 ms and fra
C26_Witness ==
    /\ pc = "done"
    /\ Len(RecordsOf(0, Str(10))) = 2
    /\ RecordsOf(0, Str(10))[1].responses[1].response_time = 60
    /\ pm_response_time[ResultsAndProbesId(0, Str(10))] = 30
    /\ pm_dns_server_substring[ResultsAndProbesId(0, Str(10))] = <<"fra">>

-----------------------------------------------------------------------------
(* C27 *)

\* C27: after process_request returns for set 0, whatever the list of
\* results: there are as many response-time samples as timestamps; the slow
\* counter is at most the number of samples; the malformed counter, the error
\* counter and the number of samples add up to the number of non-excluded
\* results; and the slow counter is the number of samples strictly greater
\* than the slow threshold.
C27_CounterRelations ==
    Ingested(0) =>
        LET samples == m_response_times[0] IN
        /\ Len(samples) = Len(m_timestamps[0])
        /\ m_total_slow[0] <= Len(samples)
        /\ m_total_malformeds[0] + m_total_errors[0] + Len(samples)
              = Len(Kept(InputOf(0), LAMBDA r : ~IsExcluded(r)))
        /\ m_total_slow[0]
              = Cardinality({i \in 1..Len(samples) :
                                samples[i] > args.slow_threshold})

\* Of three results read, one is of an excluded probe, one is slow and one
\* is not
C27_Witness ==
    /\ Ingested(0)
    /\ ExcludedIds = <<Str(7)>>
    /\ Len(InputOf(0)) = 3
    /\ InputOf(0)[1].probe_id = 7
    /\ m_response_times[0] = <<30, 60>>
    /\ m_total_slow[0] = 1
    /\ m_total_malformeds[0] = 0

\* Of three results read, one is malformed, one an error and one slow
CountersOfEveryKind ==
    /\ Ingested(0)
    /\ m_total_malformeds[0] = 1
    /\ m_total_errors[0] = 1
    /\ m_response_times[0] = <<60>>
    /\ m_total_slow[0] = 1

-----------------------------------------------------------------------------
(* C28 *)

\* The probe has a result in the set that is not excluded, and none that is
\* neither malformed nor an error
OnlyMalformedOrError(sid, probe_id) ==
    /\ probe_id \in SeenIn(sid)
    /\ RecordsOf(sid, probe_id) = <<>>

\* C28: the seen probe ids of set 0 are the probes of its non-excluded
\* results, whatever their classification, while a metric is stored only for
\* the probes with a result that is neither malformed nor an error.  A probe
\* all of whose results in set 0 are malformed or errors is thus seen; when
\* it is seen in set 1 too it is listed among the common probes, and its row
\* shows for set 0 the response time -1 and the substring "unknown".
C28_SeenWithoutMetric ==
    Ingested(0) =>
        /\ Range(m_seen_probe_ids[0]) = SeenIn(0)
        /\ \A p \in Probes :
              LET key == ResultsAndProbesId(0, Str(p)) IN
              /\ pc # "done" =>
                    (key \in DOMAIN pm_response_time
                        <=> RecordsOf(0, Str(p)) # <<>>)
              /\ (pc = "done" /\ OnlyMalformedOrError(0, Str(p))
                     /\ Str(p) \in SeenIn(1)) =>
                    \E i \in 1..Len(rows_out) :
                        /\ rows_out[i].f_probe_id = Str(p)
                        /\ rows_out[i].f_rt_a = -1
                        /\ rows_out[i].f_dns_response
                              = unknown \o <<":">> \o AnswerOf(1, Str(p))

\* Probe 10, whose results in set 0 are a malformed one and an error, is
\* listed among the common probes with -1 and unknown for set 0
C28_Witness ==
    /\ pc = "done"
    /\ ~args.all_probes
    /\ InputOf(0) = <<MalformedResult(10, 12016241), ErrorResult(10, 12016241)>>
    /\ m_seen_probe_ids_set[0] = {Str(10)}
    /\ Len(rows_out) = 1
    /\ rows_out[1].f_probe_id = Str(10)
    /\ rows_out[1].f_rt_a = -1
    /\ rows_out[1].f_rt_b = 42
    /\ rows_out[1].f_dns_response = <<"unknown", ":", "fra">>

-----------------------------------------------------------------------------
(* C29 *)

\* The keys of the metrics of a set
KeysOf(sid) == {ResultsAndProbesId(sid, Str(p)) : p \in Probes}

\* What a dictionary keyed by (set, probe) holds for a set
MetricsOf(pm, sid) ==
    [k \in KeysOf(sid) \cap DOMAIN pm |-> pm[k]]

\* The state of result set 0
StateOfSet0 ==
    << m_ip_version[0], m_total_responses[0], m_total_malformeds[0],
       m_total_abuf_malformeds[0], m_total_errors[0], m_total_slow[0],
       m_response_times[0], m_timestamps[0], m_seen_probe_ids[0],
       m_seen_probe_ids_set[0],
       MetricsOf(pm_response_time, 0), MetricsOf(pm_dns_server_substring, 0) >>

\* C29: the step that ingests result set 1 leaves the state of result set 0
\* as it was: its counters, its lists of response times, timestamps and seen
\* probe ids, its IP version and every metric keyed by set 0, also when the
\* two sets have results of the same probes.
C29_Set1LeavesSet0 ==
    [][(pc = "load" /\ results_set_id = 1) => StateOfSet0' = StateOfSet0]_vars

\* Both sets are ingested, each with results of the probes 7 and 10; probe 7
\* answers in 30 ms in both, probe 10 in set 0 alone
C29_Witness ==
    /\ pc = "reconcile"
    /\ results_set_id = 2
    /\ m_seen_probe_ids_set[0] = {Str(7), Str(10)}
    /\ m_seen_probe_ids_set[1] = {Str(7), Str(10)}
    /\ KeysOf(0) \cap DOMAIN pm_response_time
          = {ResultsAndProbesId(0, Str(7)), ResultsAndProbesId(0, Str(10))}
    /\ KeysOf(1) \cap DOMAIN pm_response_time
          = {ResultsAndProbesId(1, Str(7))}
    /\ pm_response_time[ResultsAndProbesId(0, Str(10))] = 60
    /\ pm_response_time[ResultsAndProbesId(0, Str(7))] = 30
    /\ pm_response_time[ResultsAndProbesId(1, Str(7))] = 30

-----------------------------------------------------------------------------
(* C30 *)

\* A dictionary keyed by (set, probe) as the run on the two result sets
\* swapped has it: what is under (0, probe) is under (1, probe) and back
SwappedMetrics(pm, default) ==
    [k \in KeysOf(0) \cup KeysOf(1) |->
        LET sp == CHOOSE x \in {0, 1} \X Probes :
                      ResultsAndProbesId(x[1], Str(x[2])) = k
        IN  Get(pm, ResultsAndProbesId(1 - sp[1], Str(sp[2])), default)]

\* The row of a probe of this run, and its row when the two sets are swapped
RowOfRun(probe_id) ==
    ProbeRow(probe_id, p_probe_properties[probe_id],
             pm_response_time, pm_dns_server_substring)

RowOfSwappedRun(probe_id) ==
    ProbeRow(probe_id, p_probe_properties[probe_id],
             SwappedMetrics(pm_response_time, -1),
             SwappedMetrics(pm_dns_server_substring, unknown))

\* The highlight of the diff with strong positive and strong negative
\* exchanged
Mirrored(fmt_chars) ==
    IF fmt_chars = fmt_bold \o fmt_bright_red THEN fmt_bold \o fmt_bright_green
    ELSE IF fmt_chars = fmt_bold \o fmt_bright_green
    THEN fmt_bold \o fmt_bright_red
    ELSE fmt_chars

\* C30: with the two result sets swapped, the rt_diff of every probe is the
\* negation of its rt_diff, the strong positive highlight of the diff
\* becomes the strong negative one and back, the neutral-tie highlight and
\* no highlight stay, and the same probes are listed (the latency thresholds
\* are >= 0).
C30_SwapNegatesDiff ==
    pc = "done" =>
        /\ rows_out = SelectSeq([i \in 1..Len(ProbesToList) |->
                                    RowOfRun(ProbesToList[i])],
                                LAMBDA row : row.printed)
        /\ \A i \in 1..Len(ProbesToList) :
              LET row == RowOfRun(ProbesToList[i])
                  swapped == RowOfSwappedRun(ProbesToList[i])
              IN  /\ swapped.f_rt_a = row.f_rt_b
                  /\ swapped.f_rt_b = row.f_rt_a
                  /\ swapped.f_rt_diff = 0 - row.f_rt_diff
                  /\ swapped.f_rt_diff_fmt_chars
                        = Mirrored(row.f_rt_diff_fmt_chars)
                  /\ swapped.printed = row.printed

\* Probe 7 is listed with a strong positive diff of 30, and with the sets
\* swapped its diff is -30 with the strong negative highlight; probe 10 has
\* no highlight either way
C30_Witness ==
    /\ pc = "done"
    /\ ~args.no_color
    /\ args.latency_diff_threshold = 20
    /\ Len(rows_out) = 2
    /\ rows_out[2].f_probe_id = Str(7)
    /\ rows_out[2].f_rt_diff = 30
    /\ rows_out[2].f_rt_diff_fmt_chars = fmt_bold \o fmt_bright_red
    /\ RowOfSwappedRun(Str(7)).f_rt_diff = -30
    /\ RowOfSwappedRun(Str(7)).f_rt_diff_fmt_chars
          = fmt_bold \o fmt_bright_green
    /\ rows_out[1].f_rt_diff = 12
    /\ rows_out[1].f_rt_diff_fmt_chars = fmt_clear
    /\ RowOfSwappedRun(Str(10)).f_rt_diff_fmt_chars = fmt_clear

\* A probe seen in one set alone has the neutral-tie highlight either way
TieEitherWay ==
    /\ pc = "done"
    /\ ~args.no_color
    /\ Len(rows_out) = 2
    /\ rows_out[2].f_rt_a = 60
    /\ rows_out[2].f_rt_b = -1
    /\ rows_out[2].f_rt_diff = 0
    /\ rows_out[2].f_rt_diff_fmt_chars = fmt_bright_magenta
    /\ RowOfSwappedRun(Str(7)).f_rt_diff_fmt_chars = fmt_bright_magenta

=============================================================================
